---- MODULE Spec2Model ----
(***************************************************************************)
(* Tile and sprite page renderer of the OLED sketches (DrawPlayfield,      *)
(* DrawSprites, DrawShiftedChar), modelled from src/wip/oledMainDEMO.cpp.   *)
(* A byte is an integer in 0..255; a pointer into a table is the 0-based   *)
(* offset into it.                                                          *)
(***************************************************************************)
EXTENDS Integers, Sequences, FiniteSets, TLC

VARIABLES
  pc,           \* position in DrawPlayfield: "tiles", "sprites", "send", "done"
  bScrollX,     \* DrawPlayfield's first argument (byte)
  bScrollY,     \* DrawPlayfield's second argument (byte)
  y,            \* page counter of DrawPlayfield's outer loop
  ty,           \* tile row of the current page
  bXOff,        \* horizontal pixel offset (a local that lives across pages)
  bYOff,        \* vertical pixel offset
  bTemp,        \* the 128-byte row buffer
  bPlayfield,   \* the 18x10 tile buffer
  object_list,  \* the sprite list
  reads,        \* history: the bPlayfield indices read for the current page
  nTile,        \* history: the number of bytes the tile pass of the page wrote
  tileBuf,      \* history: bTemp as the tile pass left it
  sprLog,       \* history: one record per sprite DrawSprites went through
  display,      \* history: what was sent to the display, in order
  arg,          \* the arguments of a function called on its own
  res,          \* what that call wrote
  iScrollX,     \* the sketches' horizontal scroll position (int)
  iScrollY,     \* the sketches' vertical scroll position (int)
  speed,        \* loop()'s frame counter, modulo 3
  backgroundPosX,   \* the background's velocity (volatile int)
  backgroundPosY,
  backgroundReset,  \* set when the encoder's button is read as pressed
  a0,           \* encoder: A at the last accepted A change (volatile int)
  c0,           \* encoder: B at the last counted step (volatile int)
  irq,          \* encoder steps counted during the current turn of loop()
  tmp,          \* the half of a two-byte access the main program has done
  hist,         \* history: what the properties of a sketch refer back to
  xTile,        \* x, the tile counter of DrawPlayfield's inner loops
  txTile,       \* tx, the tile column of DrawPlayfield's inner loops
  Count,        \* the encoder sketch's counter (volatile int)
  OldCount      \* the value of Count the encoder sketch printed last

\* the state of the renderer
drawVars == <<bScrollX, bScrollY, y, ty, bXOff, bYOff, bTemp, bPlayfield,
              object_list, reads, nTile, tileBuf, sprLog, display, arg, res>>

\* the state of the sketch around it
sketchVars == <<iScrollX, iScrollY, speed, backgroundPosX, backgroundPosY,
                backgroundReset, a0, c0, irq, tmp, hist>>

\* the counter of the rotary-encoder sketch
countVars == <<Count, OldCount>>

\* the locals of the tile loops, where a specification follows them tile
\* by tile
tileVars == <<xTile, txTile>>

vars == <<pc, drawVars, sketchVars, tileVars, countVars>>

----------------------------------------------------------------------------
(* Program constants *)

SCREEN_WIDTH == 128

PlayfieldCols == 18

PlayfieldRows == 10

PlayfieldSize == PlayfieldCols * PlayfieldRows

NumPages == 8

ViewportTiles == 16

numberOfSprites == 19

----------------------------------------------------------------------------
(* Flash tables *)

ucSprites ==
  <<
    124, 246, 102, 255, 127, 246, 102, 252,
    124, 246, 102, 255, 127, 246, 102, 252
  >>

ucBigSprites ==
  <<
    255, 255, 62, 28, 0, 0, 0, 0,
    0, 0, 0, 0, 0, 128, 252, 254,
    255, 255, 112, 32, 0, 0, 0, 0,
    0, 0, 0, 0, 0, 33, 225, 255,
    0, 0, 0, 128, 65, 139, 23, 123,
    109, 205, 205, 251, 43, 1, 0, 0,
    0, 0, 0, 7, 141, 201, 172, 173,
    32, 10, 232, 162, 136, 12, 0, 0
  >>

ucFont ==
  <<
    0, 0, 0, 0, 0, 0, 0, 0, 0, 6, 95, 95, 6, 0, 0, 0,
    7, 7, 0, 7, 7, 0, 0, 20, 127, 127, 20, 127, 127, 20, 0, 36,
    46, 42, 107, 107, 58, 18, 0, 70, 102, 48, 24, 12, 102, 98, 0, 48,
    122, 79, 93, 55, 122, 72, 0, 0, 4, 7, 3, 0, 0, 0, 0, 0,
    28, 62, 99, 65, 0, 0, 0, 0, 65, 99, 62, 28, 0, 0, 0, 8,
    42, 62, 28, 28, 62, 42, 8, 0, 8, 8, 62, 62, 8, 8, 0, 0,
    0, 128, 224, 96, 0, 0, 0, 0, 8, 8, 8, 8, 8, 8, 0, 0,
    0, 0, 96, 96, 0, 0, 0, 96, 48, 24, 12, 6, 3, 1, 0, 62,
    127, 89, 77, 71, 127, 62, 0, 64, 66, 127, 127, 64, 64, 0, 0, 98,
    115, 89, 73, 111, 102, 0, 0, 34, 99, 73, 73, 127, 54, 0, 0, 24,
    28, 22, 83, 127, 127, 80, 0, 39, 103, 69, 69, 125, 57, 0, 0, 60,
    126, 75, 73, 121, 48, 0, 0, 3, 3, 113, 121, 15, 7, 0, 0, 54,
    127, 73, 73, 127, 54, 0, 0, 6, 79, 73, 105, 63, 30, 0, 0, 0,
    0, 0, 102, 102, 0, 0, 0, 0, 0, 128, 230, 102, 0, 0, 0, 8,
    28, 54, 99, 65, 0, 0, 0, 0, 20, 20, 20, 20, 20, 20, 0, 0,
    65, 99, 54, 28, 8, 0, 0, 0, 2, 3, 89, 93, 7, 2, 0, 62,
    127, 65, 93, 93, 95, 14, 0, 124, 126, 19, 19, 126, 124, 0, 0, 65,
    127, 127, 73, 73, 127, 54, 0, 28, 62, 99, 65, 65, 99, 34, 0, 65,
    127, 127, 65, 99, 62, 28, 0, 65, 127, 127, 73, 93, 65, 99, 0, 65,
    127, 127, 73, 29, 1, 3, 0, 28, 62, 99, 65, 81, 51, 114, 0, 127,
    127, 8, 8, 127, 127, 0, 0, 0, 65, 127, 127, 65, 0, 0, 0, 48,
    112, 64, 65, 127, 63, 1, 0, 65, 127, 127, 8, 28, 119, 99, 0, 65,
    127, 127, 65, 64, 96, 112, 0, 127, 127, 14, 28, 14, 127, 127, 0, 127,
    127, 6, 12, 24, 127, 127, 0, 28, 62, 99, 65, 99, 62, 28, 0, 65,
    127, 127, 73, 9, 15, 6, 0, 30, 63, 33, 49, 97, 127, 94, 0, 65,
    127, 127, 9, 25, 127, 102, 0, 38, 111, 77, 73, 89, 115, 50, 0, 3,
    65, 127, 127, 65, 3, 0, 0, 127, 127, 64, 64, 127, 127, 0, 0, 31,
    63, 96, 96, 63, 31, 0, 0, 63, 127, 96, 48, 96, 127, 63, 0, 99,
    119, 28, 8, 28, 119, 99, 0, 7, 79, 120, 120, 79, 7, 0, 0, 71,
    99, 113, 89, 77, 103, 115, 0, 0, 127, 127, 65, 65, 0, 0, 0, 1,
    3, 6, 12, 24, 48, 96, 0, 0, 65, 65, 127, 127, 0, 0, 0, 8,
    12, 6, 3, 6, 12, 8, 0, 128, 128, 128, 128, 128, 128, 128, 128, 0,
    0, 3, 7, 4, 0, 0, 0, 32, 116, 84, 84, 60, 120, 64, 0, 65,
    127, 63, 72, 72, 120, 48, 0, 56, 124, 68, 68, 108, 40, 0, 0, 48,
    120, 72, 73, 63, 127, 64, 0, 56, 124, 84, 84, 92, 24, 0, 0, 72,
    126, 127, 73, 3, 6, 0, 0, 152, 188, 164, 164, 248, 124, 4, 0, 65,
    127, 127, 8, 4, 124, 120, 0, 0, 68, 125, 125, 64, 0, 0, 0, 96,
    224, 128, 132, 253, 125, 0, 0, 65, 127, 127, 16, 56, 108, 68, 0, 0,
    65, 127, 127, 64, 0, 0, 0, 124, 124, 24, 120, 28, 124, 120, 0, 124,
    120, 4, 4, 124, 120, 0, 0, 56, 124, 68, 68, 124, 56, 0, 0, 132,
    252, 248, 164, 36, 60, 24, 0, 24, 60, 36, 164, 248, 252, 132, 0, 68,
    124, 120, 76, 4, 12, 24, 0, 72, 92, 84, 116, 100, 36, 0, 0, 4,
    4, 62, 127, 68, 36, 0, 0, 60, 124, 64, 64, 60, 124, 64, 0, 28,
    60, 96, 96, 60, 28, 0, 0, 60, 124, 96, 48, 96, 124, 60, 0, 68,
    108, 56, 16, 56, 108, 68, 0, 156, 188, 160, 160, 252, 124, 0, 0, 76,
    100, 116, 92, 76, 100, 0, 0, 8, 8, 62, 119, 65, 65, 0, 0, 0,
    0, 0, 119, 119, 0, 0, 0, 65, 65, 119, 62, 8, 8, 0, 0, 2,
    3, 1, 3, 2, 3, 1, 0, 112, 120, 76, 70, 76, 120, 112, 0
  >>

----------------------------------------------------------------------------
(* Byte arithmetic *)

Byte == 0..255

RECURSIVE OrBits(_, _, _)
OrBits(a, b, n) ==
  IF n = 0 THEN 0
  ELSE (IF a % 2 = 1 \/ b % 2 = 1 THEN 1 ELSE 0)
       + 2 * OrBits(a \div 2, b \div 2, n - 1)

RECURSIVE AndBits(_, _, _)
AndBits(a, b, n) ==
  IF n = 0 THEN 0
  ELSE (IF a % 2 = 1 /\ b % 2 = 1 THEN 1 ELSE 0)
       + 2 * AndBits(a \div 2, b \div 2, n - 1)

BitOrTab == [a \in Byte |-> [b \in Byte |-> OrBits(a, b, 8)]]

BitAndTab == [a \in Byte |-> [b \in Byte |-> AndBits(a, b, 8)]]

\* a | b on bytes
BitOr(a, b) == BitOrTab[a][b]

\* a & b on bytes
BitAnd(a, b) == BitAndTab[a][b]

\* c >>= n on a byte
Shr(c, n) == c \div (2 ^ n)

\* c <<= n on a byte: the int result is cut to 8 bits by the assignment
Shl(c, n) == (c * (2 ^ n)) % 256

----------------------------------------------------------------------------
(* Reads.  A read past the end of a table yields whatever the memory behind *)
(* it holds: the byte junk, chosen by the action that performs the read.    *)

\* the 8 bytes that pgm_read_byte yields from offset s of ucFont onwards
FontFrom(s, junk) ==
  [z \in 1..8 |-> IF s + z <= Len(ucFont) THEN ucFont[s + z] ELSE junk]

\* bPlayfield[i]
PlayfieldAt(pf, i, junk) == IF i \in 0..(PlayfieldSize - 1) THEN pf[i] ELSE junk

\* pgm_read_byte(&ucBigSprites[i])
BigAt(i) == ucBigSprites[i + 1]

\* pgm_read_byte(&ucSprites[i])
SmallAt(i) == ucSprites[i + 1]

----------------------------------------------------------------------------
(* DrawShiftedChar: the bytes written at d, d+1, ...; s1 and s2 are the     *)
(* byte streams at the two source pointers.                                 *)

\* faulty variant: the two sources exchanged
DrawShiftedChar_Swapped(s1, s2, xoff, yoff) ==
  [z \in 1..(8 - xoff) |-> BitOr(Shr(s2[z], yoff), Shl(s1[z], 8 - yoff))]

\* faulty variant: the lower source left out
DrawShiftedChar_TopOnly(s1, s2, xoff, yoff) ==
  [z \in 1..(8 - xoff) |-> Shr(s1[z], yoff)]

DrawShiftedChar(s1, s2, xoff, yoff) ==
  [z \in 1..(8 - xoff) |-> BitOr(Shr(s1[z], yoff), Shl(s2[z], 8 - yoff))]

\* memcpy_P(d, s, n)
MemcpyP(s, n) == [z \in 1..n |-> s[z]]

----------------------------------------------------------------------------
(* The tile pass of one page of DrawPlayfield.  The state of the loops is   *)
(* st = [out, tx, xoff, reads]: out holds the bytes written from bTemp[0]   *)
(* on (d = bTemp + Len(out)).                                               *)

WrapTx(tx) == IF tx >= 18 THEN tx - 18 ELSE tx

WrapTy(t) == IF t >= 10 THEN t - 10 ELSE t

\* faulty variant: the next line without the wrap past the bottom
NextLine_NoWrap(iOffset) == iOffset + 18

NextLine(iOffset) ==
  IF iOffset + 18 >= 180 THEN iOffset + 18 - 180 ELSE iOffset + 18

\* one iteration of the loop of the bYOff # 0 branch
ShiftedTile(pf, t, yoff, st, junk) ==
  LET tx      == WrapTx(st.tx)
      iOffset == tx + t * 18
      iOffset2 == NextLine(iOffset)
      s       == FontFrom(PlayfieldAt(pf, iOffset, junk) * 8 + st.xoff, junk)
      sNext   == FontFrom(PlayfieldAt(pf, iOffset2, junk) * 8 + st.xoff, junk)
  IN  [out   |-> st.out \o DrawShiftedChar(s, sNext, st.xoff, yoff),
       tx    |-> tx + 1,
       xoff  |-> 0,
       reads |-> Append(st.reads, <<iOffset, iOffset2>>)]

\* one iteration of the loop of the bYOff = 0 branch
PlainTile(pf, t, st, junk) ==
  LET tx      == WrapTx(st.tx)
      iOffset == tx + t * 18
      s       == FontFrom(PlayfieldAt(pf, iOffset, junk) * 8 + st.xoff, junk)
  IN  [out   |-> st.out \o MemcpyP(s, 8 - st.xoff),
       tx    |-> tx + 1,
       xoff  |-> 0,
       reads |-> Append(st.reads, <<iOffset, -1>>)]

RECURSIVE TileLoop(_, _, _, _, _, _)
TileLoop(pf, t, yoff, st, x, junk) ==
  IF x >= ViewportTiles THEN st
  ELSE TileLoop(pf, t, yoff,
                IF yoff # 0 THEN ShiftedTile(pf, t, yoff, st, junk)
                            ELSE PlainTile(pf, t, st, junk),
                x + 1, junk)

\* faulty variant: the partial character is drawn, but bXOff is left at the
\* 0 the loop set instead of the width of the partial character
PartialTile_KeepsXOff(pf, t, yoff, st, junk) ==
  IF Len(st.out) = SCREEN_WIDTH THEN st
  ELSE [out   |-> st.out \o [i \in 1..(SCREEN_WIDTH - Len(st.out)) |-> 0],
        tx    |-> WrapTx(st.tx),
        xoff  |-> st.xoff,
        reads |-> Append(st.reads, <<WrapTx(st.tx) + t * 18, -1>>)]

\* faulty variant: the partial character is not drawn
PartialTile_Omitted(pf, t, yoff, st, junk) == st

\* "partial character left to draw"
PartialTile(pf, t, yoff, st, junk) ==
  IF Len(st.out) = SCREEN_WIDTH THEN st
  ELSE
    LET rest    == SCREEN_WIDTH - Len(st.out)
        tx      == WrapTx(st.tx)
        iOffset == tx + t * 18
        iOffset2 == NextLine(iOffset)
        s       == FontFrom(PlayfieldAt(pf, iOffset, junk) * 8, junk)
        sNext   == FontFrom(PlayfieldAt(pf, iOffset2, junk) * 8, junk)
    IN  IF yoff # 0
        THEN [out   |-> st.out \o DrawShiftedChar(s, sNext, 8 - rest, yoff),
              tx    |-> tx,
              xoff  |-> rest,
              reads |-> Append(st.reads, <<iOffset, iOffset2>>)]
        ELSE [out   |-> st.out \o MemcpyP(s, rest),
              tx    |-> tx,
              xoff  |-> rest,
              reads |-> Append(st.reads, <<iOffset, -1>>)]

\* memset, the 16 tiles and the partial tile of the page with tile row t
TilePass(pf, sx, t, xoff, yoff, junk) ==
  PartialTile(pf, t, yoff,
              TileLoop(pf, t, yoff,
                       [out |-> <<>>, tx |-> Shr(sx, 3), xoff |-> xoff,
                        reads |-> <<>>],
                       0, junk),
              junk)

\* the row buffer: memset to 0, then the bytes the tile pass wrote
RowOf(out) ==
  [c \in 0..(SCREEN_WIDTH - 1) |-> IF c < Len(out) THEN out[c + 1] ELSE 0]

----------------------------------------------------------------------------
(* DrawSprites *)

\* faulty variant: the pattern OR-ed in before the mask is applied
Composite_OrThenAnd(cOld, mask, cNew) == BitAnd(BitOr(cOld, cNew), mask)

\* cOld &= mask; cOld |= cNew
Composite(cOld, mask, cNew) == BitOr(BitAnd(cOld, mask), cNew)

\* bSize = (bSprite & 0x80) ? 16 : 8
SizeOf(obj) == IF obj.bType >= 128 THEN 16 ELSE 8

\* faulty variant: the bottom test off by one
Visible_LateBottom(obj, y0) ==
  /\ ~(obj.y > y0 + 8)
  /\ ~(obj.y + SizeOf(obj) <= y0)
  /\ ~(obj.x >= 128)

\* the three tests that skip a sprite: past bottom, above top, off right edge
Visible(obj, y0) ==
  /\ ~(obj.y >= y0 + 8)
  /\ ~(obj.y + SizeOf(obj) <= y0)
  /\ ~(obj.x >= 128)

\* faulty variant: the width is not cut at the right edge
WidthOf_Unclipped(obj) == SizeOf(obj)

\* bWidth: the sprite's width, cut at the right edge of the display
WidthOf(obj) ==
  IF 128 - obj.x < SizeOf(obj) THEN 128 - obj.x ELSE SizeOf(obj)

\* faulty variant: the source pointer never moves to the lower half
BigSource_UpperOnly(obj, y0) == (obj.bType % 128) * 64

\* the source pointer of a 16x16 sprite: its glyph, or the glyph's lower half
BigSource(obj, y0) ==
  LET s == (obj.bType % 128) * 64
  IN  IF obj.y + 8 <= y0 THEN s + 16 ELSE s

\* which of the four loops of a 16x16 sprite runs
BigPath(obj, y0) ==
  IF obj.y % 8 = 0 THEN "aligned"
  ELSE IF obj.y + 8 < y0 THEN "bottom"
  ELSE IF obj.y > y0 THEN "top"
  ELSE "both"

\* mask of the loop `path` of a 16x16 sprite for the byte at s, just before
\* cOld &= mask
BigMask(path, s, k) ==
  CASE path = "aligned" -> BigAt(s)
    [] path = "bottom"  -> BitOr(Shr(BigAt(s), 8 - k), Shl(255, k))
    [] path = "top"     -> BitOr(Shl(BigAt(s), k), Shr(255, 8 - k))
    [] OTHER            -> BitOr(Shr(BigAt(s), 8 - k), Shl(BigAt(s + 16), k))

\* faulty variant: the pattern is composited as it is stored, unshifted
BigPat_Unshifted(path, s, k) == BigAt(s + 32)

\* cNew of the loop `path` of a 16x16 sprite for the byte at s, just before
\* cOld |= cNew
BigPat(path, s, k) ==
  CASE path = "aligned" -> BigAt(s + 32)
    [] path = "bottom"  -> Shr(BigAt(s + 32), 8 - k)
    [] path = "top"     -> Shl(BigAt(s + 32), k)
    [] OTHER            -> BitOr(Shr(BigAt(s + 32), 8 - k), Shl(BigAt(s + 48), k))

\* which branch the loop of an 8x8 sprite takes
SmallPath(obj, y0) ==
  IF obj.y % 8 = 0 THEN "aligned"
  ELSE IF obj.y > y0 THEN "top"
  ELSE "bottom"

SmallMask(path, s, k) ==
  CASE path = "aligned" -> SmallAt(s)
    [] path = "top"     -> BitOr(Shl(SmallAt(s), k), Shr(255, 8 - k))
    [] OTHER            -> BitOr(Shr(SmallAt(s), 8 - k), Shl(255, k))

\* faulty variant: a sprite above the page's top shifted by k, not by 8 - k
SmallPat_ShiftK(path, s, k) ==
  CASE path = "aligned" -> SmallAt(s + 8)
    [] path = "top"     -> Shl(SmallAt(s + 8), k)
    [] OTHER            -> Shr(SmallAt(s + 8), k)

SmallPat(path, s, k) ==
  CASE path = "aligned" -> SmallAt(s + 8)
    [] path = "top"     -> Shl(SmallAt(s + 8), k)
    [] OTHER            -> Shr(SmallAt(s + 8), 8 - k)

\* for (x = 0; x < bWidth; x++) { ...; *d++ = cOld; }: the loop writes
\* d[0], ..., d[bWidth - 1], each once, in this order
BlitCols(d, bWidth) == [x \in 1..bWidth |-> d + x - 1]

\* the buffer after the loop
Blit(buf, d, bWidth, masks, pats) ==
  [c \in {c \in d..(d + bWidth - 1) : c < SCREEN_WIDTH} |->
     Composite(buf[c], masks[c - d + 1], pats[c - d + 1])] @@ buf

\* one turn of the loop over the sprites: the buffer after it and what it
\* did (cols: the indices written; old, new: their bytes before and after)
DrawOneSprite(buf, obj, y0) ==
  IF ~Visible(obj, y0)
  THEN [buf |-> buf, vis |-> FALSE, path |-> "skip", cols |-> <<>>,
        masks |-> <<>>, pats |-> <<>>, old |-> <<>>, new |-> <<>>]
  ELSE
    LET big   == SizeOf(obj) = 16
        k     == obj.y % 8
        w     == WidthOf(obj)
        s     == IF big THEN BigSource(obj, y0) ELSE (obj.bType % 128) * 16
        path  == IF big THEN BigPath(obj, y0) ELSE SmallPath(obj, y0)
        masks == [x \in 1..w |-> IF big THEN BigMask(path, s + x - 1, k)
                                        ELSE SmallMask(path, s + x - 1, k)]
        pats  == [x \in 1..w |-> IF big THEN BigPat(path, s + x - 1, k)
                                        ELSE SmallPat(path, s + x - 1, k)]
        r     == [buf  |-> Blit(buf, obj.x, w, masks, pats),
                  cols |-> BlitCols(obj.x, w)]
    IN  [buf |-> r.buf, vis |-> TRUE, path |-> path, cols |-> r.cols,
         masks |-> masks, pats |-> pats,
         new  |-> [x \in 1..Len(r.cols) |->
                     IF r.cols[x] < SCREEN_WIDTH THEN r.buf[r.cols[x]] ELSE 0],
         old  |-> [x \in 1..Len(r.cols) |->
                     IF r.cols[x] < SCREEN_WIDTH THEN buf[r.cols[x]] ELSE 0]]

\* for (i = 0; i < bCount; i++): acc = [buf, log]
RECURSIVE DrawSprites(_, _, _, _, _)
DrawSprites(y0, acc, pList, bCount, i) ==
  IF i >= bCount THEN acc
  ELSE LET r == DrawOneSprite(acc.buf, pList[i], y0)
       IN  DrawSprites(y0,
                       [buf |-> r.buf,
                        log |-> Append(acc.log,
                                       [vis |-> r.vis, path |-> r.path,
                                        cols |-> r.cols, masks |-> r.masks,
                                        pats |-> r.pats, old |-> r.old,
                                        new |-> r.new])],
                       pList, bCount, i + 1)

----------------------------------------------------------------------------
(* The state setup() leaves, and the inputs of a frame *)

\* bPlayfield after setup(): every row holds 'A' - 32, 'B' - 32, ...
SetupPlayfield == [i \in 0..(PlayfieldSize - 1) |-> 33 + (i % PlayfieldCols)]

\* the index of the moving object
Mover == 15

\* object_list after setup(), with the moving object 15 at (ox, oy), type ot
SetupObjects(ox, oy, ot) ==
  [i \in 0..(numberOfSprites - 1) |->
     IF i = Mover THEN [x |-> ox, y |-> oy, bType |-> ot]
     ELSE IF i < 16 THEN [x |-> (i % 4) * 24, y |-> ((i \div 4) * 4) * 3,
                          bType |-> 0]
     ELSE [x |-> 0, y |-> 0, bType |-> 0]]

\* bounds of the inputs
MaxObjY == 80

ScrollXSamples == {141}

ScrollYSamples == {77}

ObjXSamples == {0, 124}

ObjYSamples == {3}

JunkBytes == {0, 65}

ByteSamples == {0, 255, 85, 170}

\* frames that sweep the scroll offsets, the objects as loop() first has them
ScrollSweep ==
  {[sx |-> s[1], sy |-> s[2], ox |-> 72, oy |-> 36, ot |-> 128] :
     s \in (Byte \X ScrollYSamples) \cup (ScrollXSamples \X Byte)
            \cup {<<0, 0>>}}

\* frames that sweep the position and the size of the moving object
ObjectSweep ==
  {[sx |-> 5, sy |-> 3, ox |-> o[1], oy |-> o[2], ot |-> ot] :
     o \in (Byte \X ObjYSamples) \cup (ObjXSamples \X (0..MaxObjY)),
     ot \in {0, 128}}

Inputs == ScrollSweep \cup ObjectSweep

Blank == [c \in 0..(SCREEN_WIDTH - 1) |-> 0]

\* no sketch runs around the call
SketchIdle ==
  /\ iScrollX = 0
  /\ iScrollY = 0
  /\ speed = 0
  /\ backgroundPosX = 0
  /\ backgroundPosY = 0
  /\ backgroundReset = 0
  /\ a0 = 0
  /\ c0 = 0
  /\ irq = 0
  /\ tmp = <<>>
  /\ hist = <<>>
  /\ xTile = 0
  /\ txTile = 0
  /\ Count = 0
  /\ OldCount = 0

Init ==
  \E inp \in Inputs :
    /\ pc = "call"
    /\ bScrollX = inp.sx
    /\ bScrollY = inp.sy
    /\ y = 0
    /\ ty = 0
    /\ bXOff = 0
    /\ bYOff = 0
    /\ bTemp = Blank
    /\ bPlayfield = SetupPlayfield
    /\ object_list = SetupObjects(inp.ox, inp.oy, inp.ot)
    /\ reads = <<>>
    /\ nTile = 0
    /\ tileBuf = Blank
    /\ sprLog = <<>>
    /\ display = <<>>
    /\ arg = <<>>
    /\ res = <<>>
    /\ SketchIdle

----------------------------------------------------------------------------
(* DrawPlayfield, one action per stretch between two of its calls *)

\* entry: bXOff, bYOff and ty are set, the loop over the pages starts
Enter ==
  /\ pc = "call"
  /\ bXOff' = bScrollX % 8
  /\ bYOff' = bScrollY % 8
  /\ ty' = Shr(bScrollY, 3)
  /\ y' = 0
  /\ pc' = "tiles"
  /\ UNCHANGED <<bScrollX, bScrollY, bTemp, bPlayfield, object_list, reads,
                 nTile, tileBuf, sprLog, display, arg, res>>
  /\ UNCHANGED sketchVars
  /\ UNCHANGED <<tileVars, countVars>>

\* the page's memset and tile loops, up to the call of DrawSprites
DrawTiles ==
  /\ pc = "tiles"
  /\ y < NumPages
  /\ \E junk \in (IF WrapTy(ty) < PlayfieldRows THEN {0} ELSE JunkBytes) :
       \E r \in {TilePass(bPlayfield, bScrollX, WrapTy(ty), bXOff, bYOff,
                          junk)} :
         /\ bTemp' = RowOf(r.out)
         /\ bXOff' = r.xoff
         /\ reads' = r.reads
         /\ nTile' = Len(r.out)
  /\ tileBuf' = bTemp'
  /\ ty' = WrapTy(ty)
  /\ pc' = "sprites"
  /\ UNCHANGED <<bScrollX, bScrollY, bYOff, y, bPlayfield, object_list, sprLog,
                 display, arg, res>>
  /\ UNCHANGED sketchVars
  /\ UNCHANGED <<tileVars, countVars>>

\* DrawSprites(y * 8, bTemp, object_list, numberOfSprites)
CallDrawSprites ==
  /\ pc = "sprites"
  /\ \E r \in {DrawSprites(y * 8, [buf |-> bTemp, log |-> <<>>], object_list,
                           numberOfSprites, 0)} :
       /\ bTemp' = r.buf
       /\ sprLog' = r.log
  /\ pc' = "send"
  /\ UNCHANGED <<bScrollX, bScrollY, bXOff, bYOff, y, ty, bPlayfield,
                 object_list, reads, nTile, tileBuf, display, arg, res>>
  /\ UNCHANGED sketchVars
  /\ UNCHANGED <<tileVars, countVars>>

\* faulty variant: the row is written before the cursor is set
SendPage_DataFirst ==
  /\ pc = "send"
  /\ display' = display \o << <<"data", bTemp>>, <<"pos", 0, y>> >>
  /\ ty' = ty + 1
  /\ y' = y + 1
  /\ pc' = "tiles"
  /\ UNCHANGED <<bScrollX, bScrollY, bXOff, bYOff, bTemp, bPlayfield,
                 object_list, reads, nTile, tileBuf, sprLog, arg, res>>
  /\ UNCHANGED sketchVars
  /\ UNCHANGED <<tileVars, countVars>>

\* faulty variant: the page counter stays where it is
SendPage_SamePage ==
  /\ pc = "send"
  /\ display' = display \o << <<"pos", 0, y>>, <<"data", bTemp>> >>
  /\ ty' = ty + 1
  /\ y' = y
  /\ pc' = "tiles"
  /\ UNCHANGED <<bScrollX, bScrollY, bXOff, bYOff, bTemp, bPlayfield,
                 object_list, reads, nTile, tileBuf, sprLog, arg, res>>
  /\ UNCHANGED sketchVars
  /\ UNCHANGED <<tileVars, countVars>>

\* oledSetPosition(0, y); I2CWriteData(bTemp, SCREEN_WIDTH); ty++; y++
SendPage ==
  /\ pc = "send"
  /\ display' = display \o << <<"pos", 0, y>>, <<"data", bTemp>> >>
  /\ ty' = ty + 1
  /\ y' = y + 1
  /\ pc' = "tiles"
  /\ UNCHANGED <<bScrollX, bScrollY, bXOff, bYOff, bTemp, bPlayfield,
                 object_list, reads, nTile, tileBuf, sprLog, arg, res>>
  /\ UNCHANGED sketchVars
  /\ UNCHANGED <<tileVars, countVars>>

\* the loop over the pages ends and DrawPlayfield returns
Return ==
  /\ pc = "tiles"
  /\ y >= NumPages
  /\ pc' = "done"
  /\ UNCHANGED <<bScrollX, bScrollY, y, ty, bXOff, bYOff, bTemp, bPlayfield,
                 object_list, reads, nTile, tileBuf, sprLog, display, arg, res>>
  /\ UNCHANGED sketchVars
  /\ UNCHANGED <<tileVars, countVars>>

Next == Enter \/ DrawTiles \/ CallDrawSprites \/ SendPage \/ Return

Spec == Init /\ [][Next]_vars

----------------------------------------------------------------------------
(* DrawShiftedChar called on its own: two source streams, the horizontal   *)
(* offset (8 - xoff bytes are written) and the vertical offset 1..7 with   *)
(* which DrawPlayfield calls it.                                            *)

\* an 8-byte source stream: b, b + step, b + 2 * step, ...
Stream(b, step) == [z \in 1..8 |-> (b + step * (z - 1)) % 256]

ShiftInputs ==
  {[s1 |-> Stream(p[1], st), s2 |-> Stream(p[2], 3 * st), xoff |-> xo,
    yoff |-> v] :
     p \in (Byte \X ByteSamples) \cup (ByteSamples \X Byte),
     st \in {0, 1}, xo \in {0, 5}, v \in 1..7}

InitShift ==
  /\ pc = "shift"
  /\ arg \in ShiftInputs
  /\ res = <<>>
  /\ bScrollX = 0
  /\ bScrollY = 0
  /\ y = 0
  /\ ty = 0
  /\ bXOff = 0
  /\ bYOff = 0
  /\ bTemp = <<>>
  /\ bPlayfield = <<>>
  /\ object_list = <<>>
  /\ reads = <<>>
  /\ nTile = 0
  /\ tileBuf = <<>>
  /\ sprLog = <<>>
  /\ display = <<>>
  /\ SketchIdle

CallDrawShiftedChar ==
  /\ pc = "shift"
  /\ res' = DrawShiftedChar(arg.s1, arg.s2, arg.xoff, arg.yoff)
  /\ pc' = "shifted"
  /\ UNCHANGED <<bScrollX, bScrollY, y, ty, bXOff, bYOff, bTemp, bPlayfield,
                 object_list, reads, nTile, tileBuf, sprLog, display, arg>>
  /\ UNCHANGED sketchVars
  /\ UNCHANGED <<tileVars, countVars>>

NextShift == CallDrawShiftedChar

SpecShift == InitShift /\ [][NextShift]_vars

----------------------------------------------------------------------------
(* DrawSprites on its own, with a list of one sprite: the 8 calls of one   *)
(* frame, the row buffer of each page holding bytes that stand for what    *)
(* the tile pass left there.                                               *)

SpriteXSamples == {0, 5, 113, 120}

SpriteYSamples == (0..66) \cup {255}

\* the row buffer of page p before DrawSprites, for the seed arg[1]
Background(seed, p) ==
  [c \in 0..(SCREEN_WIDTH - 1) |-> (seed + 7 * c + 13 * p) % 256]

InitSprite ==
  /\ pc = "sbuf"
  /\ arg \in {<<0>>, <<165>>}
  /\ \E ox \in SpriteXSamples, oy \in SpriteYSamples, ot \in {0, 128} :
       object_list = [i \in 0..0 |-> [x |-> ox, y |-> oy, bType |-> ot]]
  /\ res = <<>>
  /\ bScrollX = 0
  /\ bScrollY = 0
  /\ y = 0
  /\ ty = 0
  /\ bXOff = 0
  /\ bYOff = 0
  /\ bTemp = Blank
  /\ bPlayfield = <<>>
  /\ reads = <<>>
  /\ nTile = 0
  /\ tileBuf = Blank
  /\ sprLog = <<>>
  /\ display = <<>>
  /\ SketchIdle

\* the row buffer of page y as the tile pass leaves it
SpriteBuffer ==
  /\ pc = "sbuf"
  /\ y < NumPages
  /\ bTemp' = Background(arg[1], y)
  /\ tileBuf' = bTemp'
  /\ pc' = "sdraw"
  /\ UNCHANGED <<bScrollX, bScrollY, y, ty, bXOff, bYOff, bPlayfield,
                 object_list, reads, nTile, sprLog, display, arg, res,
                 sketchVars, tileVars,
                 countVars>>

\* DrawSprites(y * 8, bTemp, object_list, 1)
SpriteDraw ==
  /\ pc = "sdraw"
  /\ \E r \in {DrawSprites(y * 8, [buf |-> bTemp, log |-> <<>>], object_list,
                           1, 0)} :
       /\ bTemp' = r.buf
       /\ sprLog' = r.log
  /\ pc' = "snext"
  /\ UNCHANGED <<bScrollX, bScrollY, y, ty, bXOff, bYOff, bPlayfield,
                 object_list, reads, nTile, tileBuf, display, arg, res,
                 sketchVars, tileVars,
                 countVars>>

\* the row is sent and the next page follows
SpriteNext ==
  /\ pc = "snext"
  /\ display' = display \o << <<"pos", 0, y>>, <<"data", bTemp>> >>
  /\ y' = y + 1
  /\ pc' = IF y + 1 < NumPages THEN "sbuf" ELSE "sdone"
  /\ UNCHANGED <<bScrollX, bScrollY, ty, bXOff, bYOff, bTemp, bPlayfield,
                 object_list, reads, nTile, tileBuf, sprLog, arg, res,
                 sketchVars, tileVars,
                 countVars>>

NextSprite == SpriteBuffer \/ SpriteDraw \/ SpriteNext

SpecSprite == InitSprite /\ [][NextSprite]_vars

----------------------------------------------------------------------------
(* The sketches around the renderer.  The target is an 8-bit AVR: an int   *)
(* is 16 bits wide and the main program reads and writes it one byte at a  *)
(* time, so an interrupt can be served between the two bytes.  The         *)
(* interrupt handler itself runs with interrupts disabled, in one piece.   *)

\* a value cut to a 16-bit int
Int16(v) == LET u == v % 65536 IN IF u >= 32768 THEN u - 65536 ELSE u

\* the low and the high byte of an int
Lo(v) == v % 256

Hi(v) == (v \div 256) % 256

Word(lo, hi) == Int16(hi * 256 + lo)

\* what a two-byte read yields when the variable held `first` at the read
\* of one byte and `second` at the read of the other, in either order
TornRead(first, second) ==
  {Word(Lo(first), Hi(second)), Word(Lo(second), Hi(first))}

\* the variable after one byte of `new` is stored over `old`
HalfWrite(old, new, half) ==
  IF half = "lo" THEN Word(Lo(new), Hi(old)) ELSE Word(Lo(old), Hi(new))

\* the byte that is stored second
OtherHalf(half) == IF half = "lo" THEN "hi" ELSE "lo"

\* faulty variant: every change of A is counted, whatever B
EncoderStep_EveryEdge(a, b, oldA, oldC) ==
  IF a # oldA
  THEN [a0 |-> a, c0 |-> b, count |-> TRUE, up |-> (a = b)]
  ELSE [a0 |-> oldA, c0 |-> oldC, count |-> FALSE, up |-> FALSE]

\* the encoder's interrupt handler: it counts a step when A differs from a0
\* and B from c0, in the direction a = b; step is [a0, c0, count, up]
EncoderStep(a, b, oldA, oldC) ==
  IF a # oldA
  THEN IF b # oldC
       THEN [a0 |-> a, c0 |-> b, count |-> TRUE, up |-> (a = b)]
       ELSE [a0 |-> a, c0 |-> oldC, count |-> FALSE, up |-> FALSE]
  ELSE [a0 |-> oldA, c0 |-> oldC, count |-> FALSE, up |-> FALSE]

\* bounds: how far the encoder is turned, down to -MaxDown and up to MaxUp,
\* and how many steps it is turned during one turn of loop()
MaxDown == 1

MaxUp == 8

MaxIrq == 1

----------------------------------------------------------------------------
(* The vertical-scroll sketch: a 29-row tile map streamed through the      *)
(* 18x10 playfield by reloadPlayField and adjustPlayField.  hist keeps,    *)
(* for the properties, the tile row of the latest call or reload (prevRow),*)
(* whether every call so far had iScrollY in 0..255 and a tile row next to *)
(* prevRow (ok), and the row adjustPlayField derived (currentRow).         *)

EDGES == 2

TILEMAP_HEIGHT == 29

\* tileMap[TILEMAP_HEIGHT][TILEMAP_WIDTH], one tuple per row
tileMap ==
  <<
    <<0, 1, 0, 0, 0, 0, 0, 0, 0, 0, 0, 0, 0, 0, 0, 0, 1, 0>>,
    <<0, 1, 1, 0, 0, 0, 0, 0, 0, 0, 0, 0, 0, 0, 0, 0, 1, 0>>,
    <<0, 1, 1, 1, 0, 0, 0, 0, 0, 0, 0, 0, 0, 0, 0, 0, 1, 0>>,
    <<0, 1, 1, 1, 1, 0, 0, 0, 0, 0, 0, 0, 0, 0, 0, 0, 1, 0>>,
    <<0, 1, 1, 1, 1, 1, 0, 0, 0, 0, 0, 0, 0, 0, 0, 0, 1, 0>>,
    <<0, 1, 1, 1, 1, 1, 1, 0, 0, 0, 0, 0, 0, 0, 0, 0, 1, 0>>,
    <<0, 1, 1, 1, 1, 1, 1, 1, 0, 0, 0, 0, 0, 0, 0, 0, 1, 0>>,
    <<0, 1, 1, 1, 1, 1, 1, 1, 1, 0, 0, 0, 0, 0, 0, 0, 1, 0>>,
    <<0, 1, 1, 1, 1, 1, 1, 1, 1, 1, 0, 0, 0, 0, 0, 0, 1, 0>>,
    <<0, 1, 1, 1, 1, 1, 1, 1, 1, 1, 1, 0, 0, 0, 0, 0, 1, 0>>,
    <<0, 1, 1, 1, 1, 1, 1, 1, 1, 1, 1, 1, 0, 0, 0, 0, 1, 0>>,
    <<0, 1, 1, 1, 1, 1, 1, 1, 1, 1, 1, 1, 1, 0, 0, 0, 1, 0>>,
    <<0, 1, 1, 1, 1, 1, 1, 1, 1, 1, 1, 1, 1, 1, 0, 0, 1, 0>>,
    <<0, 1, 1, 1, 1, 1, 1, 1, 1, 1, 1, 1, 1, 1, 1, 0, 1, 0>>,
    <<0, 1, 1, 1, 1, 1, 1, 1, 1, 1, 1, 1, 1, 1, 1, 1, 1, 0>>,
    <<0, 1, 1, 1, 1, 1, 1, 1, 1, 1, 1, 1, 1, 1, 1, 0, 1, 0>>,
    <<0, 1, 1, 1, 1, 1, 1, 1, 1, 1, 1, 1, 1, 1, 0, 0, 1, 0>>,
    <<0, 1, 1, 1, 1, 1, 1, 1, 1, 1, 1, 1, 1, 0, 0, 0, 1, 0>>,
    <<0, 1, 1, 1, 1, 1, 1, 1, 1, 1, 1, 1, 0, 0, 0, 0, 1, 0>>,
    <<0, 1, 1, 1, 1, 1, 1, 1, 1, 1, 1, 0, 0, 0, 0, 0, 1, 0>>,
    <<0, 1, 1, 1, 1, 1, 1, 1, 1, 1, 0, 0, 0, 0, 0, 0, 1, 0>>,
    <<0, 1, 1, 1, 1, 1, 1, 1, 1, 0, 0, 0, 0, 0, 0, 0, 1, 0>>,
    <<0, 1, 1, 1, 1, 1, 1, 1, 0, 0, 0, 0, 0, 0, 0, 0, 1, 0>>,
    <<0, 1, 1, 1, 1, 1, 1, 0, 0, 0, 0, 0, 0, 0, 0, 0, 1, 0>>,
    <<0, 1, 1, 1, 1, 1, 0, 0, 0, 0, 0, 0, 0, 0, 0, 0, 1, 0>>,
    <<0, 1, 1, 1, 1, 0, 0, 0, 0, 0, 0, 0, 0, 0, 0, 0, 1, 0>>,
    <<0, 1, 1, 1, 0, 0, 0, 0, 0, 0, 0, 0, 0, 0, 0, 0, 1, 0>>,
    <<0, 1, 1, 0, 0, 0, 0, 0, 0, 0, 0, 0, 0, 0, 0, 0, 1, 0>>,
    <<0, 1, 0, 0, 0, 0, 0, 0, 0, 0, 0, 0, 0, 0, 0, 1, 1, 0>>
  >>

\* tileMap[r][x]
TileMapAt(r, x) == tileMap[r + 1][x + 1]

\* one turn of reloadPlayField's outer loop: playfield row (iStart + y)
\* is loaded with tile map row (iStart + y) % TILEMAP_HEIGHT
ReloadRow(pf, iStart, yy) ==
  LET bitStart == (((iStart + yy) * PlayfieldCols) % PlayfieldSize) % 256
  IN  [i \in 0..(PlayfieldSize - 1) |->
         IF i \in bitStart..(bitStart + PlayfieldCols - 1)
         THEN TileMapAt((iStart + yy) % TILEMAP_HEIGHT, i - bitStart)
         ELSE pf[i]]

RECURSIVE ReloadRows(_, _, _)
ReloadRows(pf, iStart, yy) ==
  IF yy >= PlayfieldRows THEN pf
  ELSE ReloadRows(ReloadRow(pf, iStart, yy), iStart, yy + 1)

\* reloadPlayField() when it reads iScrollY as v
reloadPlayField(pf, v) == ReloadRows(pf, (v \div 8) % 256, 0)

\* adjustPlayField() when it reads iScrollY as v: the playfield rows of
\* currentRow + 8 and of currentRow are loaded from the tile map
adjustPlayField(pf, v) ==
  LET currentRow        == ((v \div 8) + (EDGES \div 2)) % 256
      playFieldLength   == PlayfieldRows * PlayfieldCols
      cNextPlayfieldBit == ((currentRow + NumPages) * PlayfieldCols)
                             % playFieldLength
      cNextRow          == (currentRow + NumPages) % TILEMAP_HEIGHT
      cPrevPlayfieldBit == (currentRow * PlayfieldCols) % playFieldLength
      cPrevRow          == currentRow % TILEMAP_HEIGHT
  IN  [i \in 0..(PlayfieldSize - 1) |->
         IF i \in cPrevPlayfieldBit..(cPrevPlayfieldBit + PlayfieldCols - 1)
         THEN TileMapAt(cPrevRow, i - cPrevPlayfieldBit)
         ELSE IF i \in cNextPlayfieldBit..
                         (cNextPlayfieldBit + PlayfieldCols - 1)
         THEN TileMapAt(cNextRow, i - cNextPlayfieldBit)
         ELSE pf[i]]

\* ty at the head of page p of DrawPlayfield's loop, t being ty before the
\* loop: if (ty >= PLAYFIELD_ROWS) ty -= PLAYFIELD_ROWS; ... ty++
RECURSIVE TyAt(_, _)
TyAt(t, p) == IF p = 0 THEN WrapTy(t) ELSE WrapTy(TyAt(t, p - 1) + 1)

\* the positions of the vertical-scroll sketch's main program
VScrollPcs ==
  {"vsetup", "vcall", "vadjust", "vpages", "vret", "vwrapx", "vchk240",
   "vchk0", "vset8", "vset232", "vreload", "vclick", "vreset"}

\* where the main program reads both bytes of iScrollY
VReadPcs == {"vsetup", "vadjust", "vchk240", "vreload"}

\* what the main program stores into iScrollY, and where
VStored == [vset8 |-> 8, vset232 |-> 232]

\* the renderer's variables that the sketch's own steps leave alone
frameVars == <<y, ty, bXOff, bYOff, bTemp, reads, nTile, tileBuf, sprLog,
               display, arg, res>>

velVars == <<backgroundPosX, backgroundPosY, backgroundReset>>

\* the state in setup(), once the handler is attached and the scroll
\* position set: the playfield is still to be loaded
InitV ==
  /\ pc = "vsetup"
  /\ iScrollX = 0
  /\ iScrollY = 0
  /\ bPlayfield = [i \in 0..(PlayfieldSize - 1) |-> 0]
  /\ object_list = [i \in 0..0 |-> [x |-> 0, y |-> 0, bType |-> 0]]
  /\ bScrollX = 0
  /\ bScrollY = 0
  /\ y = 0
  /\ ty = 0
  /\ bXOff = 0
  /\ bYOff = 0
  /\ bTemp = Blank
  /\ reads = <<>>
  /\ nTile = 0
  /\ tileBuf = Blank
  /\ sprLog = <<>>
  /\ display = <<>>
  /\ arg = <<>>
  /\ res = <<>>
  /\ speed = 0
  /\ backgroundPosX = 0
  /\ backgroundPosY = 0
  /\ backgroundReset = 0
  /\ a0 = 0
  /\ c0 = 0
  /\ irq = 0
  /\ tmp = <<>>
  /\ hist = [prevRow |-> 0, ok |-> TRUE, currentRow |-> 0]
  /\ xTile = 0
  /\ txTile = 0
  /\ Count = 0
  /\ OldCount = 0

\* moveBackground(), the handler of the encoder's interrupt, served between
\* two steps of the main program: a counted step moves iScrollY by one
moveBackground ==
  /\ pc \in VScrollPcs
  /\ \E a \in {0, 1}, b \in {0, 1} :
       \E e \in {EncoderStep(a, b, a0, c0)} :
         /\ a0' = e.a0
         /\ c0' = e.c0
         /\ iScrollY' = IF ~e.count THEN iScrollY
                        ELSE IF e.up THEN Int16(iScrollY + 1)
                        ELSE Int16(iScrollY - 1)
  /\ iScrollY' # iScrollY =>
       /\ irq < MaxIrq
       /\ iScrollY' \in (-MaxDown)..MaxUp
  /\ irq' = IF iScrollY' # iScrollY THEN irq + 1 ELSE irq
  /\ UNCHANGED <<pc, drawVars, iScrollX, speed, velVars, tmp, hist>>
  /\ UNCHANGED <<tileVars, countVars>>

\* the main program reads the first byte of iScrollY
VReadFirstByte ==
  /\ pc \in VReadPcs
  /\ tmp = <<>>
  /\ tmp' = <<"r", iScrollY>>
  /\ irq' = irq
  /\ UNCHANGED <<pc, drawVars, iScrollX, iScrollY, speed, velVars, a0, c0,
                 hist>>
  /\ UNCHANGED <<tileVars, countVars>>

\* the main program stores the first byte of an assignment to iScrollY
VWriteFirstByte ==
  /\ pc \in DOMAIN VStored
  /\ tmp = <<>>
  /\ \E half \in {"lo", "hi"} :
       /\ iScrollY' = HalfWrite(iScrollY, VStored[pc], half)
       /\ tmp' = <<"w", half>>
  /\ irq' = irq
  /\ UNCHANGED <<pc, drawVars, iScrollX, speed, velVars, a0, c0, hist>>
  /\ UNCHANGED <<tileVars, countVars>>

\* ... and the second byte: iScrollY = 8 or iScrollY = 232 is complete
VWriteSecondByte ==
  /\ pc \in DOMAIN VStored
  /\ tmp # <<>>
  /\ iScrollY' = HalfWrite(iScrollY, VStored[pc], OtherHalf(tmp[2]))
  /\ tmp' = <<>>
  /\ pc' = "vreload"
  /\ irq' = irq
  /\ UNCHANGED <<drawVars, iScrollX, speed, velVars, a0, c0, hist>>
  /\ UNCHANGED <<tileVars, countVars>>

\* setup(): reloadPlayField(), then the object list
VSetup ==
  /\ pc = "vsetup"
  /\ tmp # <<>>
  /\ \E v \in TornRead(tmp[2], iScrollY) :
       /\ bPlayfield' = reloadPlayField(bPlayfield, v)
       /\ hist' = [hist EXCEPT !.prevRow = (v \div 8) % 256]
  /\ object_list' = [i \in 0..0 |-> [x |-> 14, y |-> 40, bType |-> 128]]
  /\ tmp' = <<>>
  /\ pc' = "vcall"
  /\ irq' = irq
  /\ UNCHANGED <<bScrollX, bScrollY, frameVars, iScrollX, iScrollY, speed,
                 velVars, a0, c0>>
  /\ UNCHANGED <<tileVars, countVars>>

\* DrawPlayfield(iScrollX, iScrollY): the arguments are cut to bytes, the
\* offsets and the tile row are derived from them
VCall ==
  /\ pc = "vcall"
  /\ bScrollX' = Lo(iScrollX)
  /\ bScrollY' = Lo(iScrollY)
  /\ bXOff' = bScrollX' % 8
  /\ bYOff' = bScrollY' % 8
  /\ ty' = Shr(bScrollY', 3) + (EDGES \div 2)
  /\ y' = 0
  /\ hist' = [hist EXCEPT
                !.prevRow = iScrollY \div 8,
                !.ok      = /\ hist.ok
                            /\ iScrollY \in 0..255
                            /\ (iScrollY \div 8) - hist.prevRow \in {-1, 0, 1}]
  /\ pc' = "vadjust"
  /\ irq' = irq
  /\ UNCHANGED <<bTemp, bPlayfield, object_list, reads, nTile, tileBuf,
                 sprLog, display, arg, res, iScrollX, iScrollY, speed,
                 velVars, a0, c0, tmp>>
  /\ UNCHANGED <<tileVars, countVars>>

\* adjustPlayField(), called by DrawPlayfield: it reads iScrollY itself
VAdjust ==
  /\ pc = "vadjust"
  /\ tmp # <<>>
  /\ \E v \in TornRead(tmp[2], iScrollY) :
       /\ bPlayfield' = adjustPlayField(bPlayfield, v)
       /\ hist' = [hist EXCEPT
                     !.currentRow = ((v \div 8) + (EDGES \div 2)) % 256]
  /\ tmp' = <<>>
  /\ pc' = "vpages"
  /\ irq' = irq
  /\ UNCHANGED <<bScrollX, bScrollY, object_list, frameVars, iScrollX,
                 iScrollY, speed, velVars, a0, c0>>
  /\ UNCHANGED <<tileVars, countVars>>

\* DrawPlayfield's loop over the 8 pages: it reads bPlayfield and stores
\* into the row buffer alone, which lives and dies inside the call; what the
\* sketch keeps of the loop are its counters
VPages ==
  /\ pc = "vpages"
  /\ y' = NumPages
  /\ ty' = TyAt(ty, NumPages - 1) + 1
  /\ pc' = "vret"
  /\ irq' = irq
  /\ UNCHANGED <<bScrollX, bScrollY, bXOff, bYOff, bTemp, bPlayfield,
                 object_list, reads, nTile, tileBuf, sprLog, display, arg,
                 res, iScrollX, iScrollY, speed, velVars, a0, c0, tmp, hist>>
  /\ UNCHANGED <<tileVars, countVars>>

\* DrawPlayfield returns; loop(): if ((++speed % 3) == 0)
VReturn ==
  /\ pc = "vret"
  /\ speed' = (speed + 1) % 3
  /\ pc' = IF speed' = 0 THEN "vwrapx" ELSE "vreset"
  /\ irq' = 0
  /\ UNCHANGED <<drawVars, iScrollX, iScrollY, velVars, a0, c0, tmp, hist>>
  /\ UNCHANGED <<tileVars, countVars>>

\* the two assignments to iScrollX
VWrapX ==
  /\ pc = "vwrapx"
  /\ iScrollX' =
       LET x1 == IF iScrollX > PlayfieldCols * 8 THEN 0 ELSE iScrollX
       IN  IF x1 >= PlayfieldCols * 8 THEN 0
           ELSE IF x1 < 0 THEN PlayfieldCols * 8 - 1
           ELSE x1
  /\ pc' = "vchk240"
  /\ irq' = irq
  /\ UNCHANGED <<drawVars, iScrollY, speed, velVars, a0, c0, tmp, hist>>
  /\ UNCHANGED <<tileVars, countVars>>

\* if (iScrollY >= 240)
VCheckTop ==
  /\ pc = "vchk240"
  /\ tmp # <<>>
  /\ \E v \in TornRead(tmp[2], iScrollY) :
       pc' = IF v >= 240 THEN "vset8" ELSE "vchk0"
  /\ tmp' = <<>>
  /\ irq' = irq
  /\ UNCHANGED <<drawVars, iScrollX, iScrollY, speed, velVars, a0, c0, hist>>
  /\ UNCHANGED <<tileVars, countVars>>

\* else if (iScrollY < 0): the sign is in the high byte alone
VCheckBottom ==
  /\ pc = "vchk0"
  /\ pc' = IF iScrollY < 0 THEN "vset232" ELSE "vclick"
  /\ irq' = irq
  /\ UNCHANGED <<drawVars, iScrollX, iScrollY, speed, velVars, a0, c0, tmp,
                 hist>>
  /\ UNCHANGED <<tileVars, countVars>>

\* reloadPlayField() after the scroll position was reset
VReload ==
  /\ pc = "vreload"
  /\ tmp # <<>>
  /\ \E v \in TornRead(tmp[2], iScrollY) :
       /\ bPlayfield' = reloadPlayField(bPlayfield, v)
       /\ hist' = [hist EXCEPT !.prevRow = (v \div 8) % 256]
  /\ tmp' = <<>>
  /\ pc' = "vclick"
  /\ irq' = irq
  /\ UNCHANGED <<bScrollX, bScrollY, object_list, frameVars, iScrollX,
                 iScrollY, speed, velVars, a0, c0>>
  /\ UNCHANGED <<tileVars, countVars>>

\* if (analogRead(EncoderClick) < 940) backgroundReset = 1
VClick ==
  /\ pc = "vclick"
  /\ \E pressed \in BOOLEAN :
       backgroundReset' = IF pressed THEN 1 ELSE backgroundReset
  /\ pc' = "vreset"
  /\ irq' = irq
  /\ UNCHANGED <<drawVars, iScrollX, iScrollY, speed, backgroundPosX,
                 backgroundPosY, a0, c0, tmp, hist>>
  /\ UNCHANGED <<tileVars, countVars>>

\* if (backgroundReset == 1) { ... }: the end of the loop's body
VReset ==
  /\ pc = "vreset"
  /\ IF backgroundReset = 1
     THEN /\ backgroundReset' = 0
          /\ backgroundPosX' = 0
          /\ backgroundPosY' = 0
     ELSE UNCHANGED velVars
  /\ pc' = "vcall"
  /\ irq' = irq
  /\ UNCHANGED <<drawVars, iScrollX, iScrollY, speed, a0, c0, tmp, hist>>
  /\ UNCHANGED <<tileVars, countVars>>

NextV ==
  \/ moveBackground
  \/ VReadFirstByte
  \/ VWriteFirstByte
  \/ VWriteSecondByte
  \/ VSetup
  \/ VCall
  \/ VAdjust
  \/ VPages
  \/ VReturn
  \/ VWrapX
  \/ VCheckTop
  \/ VCheckBottom
  \/ VReload
  \/ VClick
  \/ VReset

SpecV == InitV /\ [][NextV]_vars

----------------------------------------------------------------------------
(* The rotating-background sketch: the encoder turns the background's      *)
(* velocity around the square of side 2, loop() adds it to the scroll      *)
(* position every third frame.  hist counts the frames drawn.              *)

\* bounds: the frames drawn in a run, and the bytes that stand for what
\* setup()'s local c holds before it is first assigned
MaxFrames == 7

UninitBytes == {0, 1, 6}

\* ucTiles of the rotating-background sketch: two glyphs of 8 bytes
ucTilesR ==
  <<
    129, 66, 36, 24, 24, 36, 66, 129,
    0, 24, 36, 66, 66, 36, 24, 0
  >>

\* setup()'s loops over bPlayfield: *d++ = (c ^= 1) for each of the 18 cells
\* of a row and c ^= 1 after each row, c holding c0 before the loops
SetupCells(c0v) ==
  [i \in 0..(PlayfieldSize - 1) |->
     LET flips == (i + 1) + (i \div PlayfieldCols)
     IN  IF flips % 2 = 1
         THEN (IF c0v % 2 = 0 THEN c0v + 1 ELSE c0v - 1)
         ELSE c0v]

\* rotateBackgroundTo(toRight) on the velocity v = [x, y]: four tests in
\* a row, each on the value the one before left
RotateStep(v, test, move) ==
  IF test = "x-2" /\ v.x = -2 THEN [v EXCEPT !.y = Int16(v.y + move)]
  ELSE IF test = "y-2" /\ v.y = -2 THEN [v EXCEPT !.x = Int16(v.x + move)]
  ELSE IF test = "x2" /\ v.x = 2 THEN [v EXCEPT !.y = Int16(v.y + move)]
  ELSE IF test = "y2" /\ v.y = 2 THEN [v EXCEPT !.x = Int16(v.x + move)]
  ELSE v

\* faulty variant: the four tests chained with else, one at most firing
rotateBackgroundTo_ElseIf(v, toRight) ==
  IF toRight
  THEN (IF v.x = -2 THEN RotateStep(v, "x-2", -1)
        ELSE IF v.y = -2 THEN RotateStep(v, "y-2", 1)
        ELSE IF v.x = 2 THEN RotateStep(v, "x2", 1)
        ELSE RotateStep(v, "y2", -1))
  ELSE (IF v.y = 2 THEN RotateStep(v, "y2", 1)
        ELSE IF v.x = 2 THEN RotateStep(v, "x2", -1)
        ELSE IF v.y = -2 THEN RotateStep(v, "y-2", -1)
        ELSE RotateStep(v, "x-2", 1))

rotateBackgroundTo(v, toRight) ==
  IF toRight
  THEN RotateStep(RotateStep(RotateStep(RotateStep(
         v, "x-2", -1), "y-2", 1), "x2", 1), "y2", -1)
  ELSE RotateStep(RotateStep(RotateStep(RotateStep(
         v, "y2", 1), "x2", -1), "y-2", -1), "x-2", 1)

\* the positions of the rotating-background sketch's main program
RotatePcs ==
  {"rsetup", "rdraw", "raddx", "raddy", "rclick", "rfix", "rreset",
   "rsetx", "rsety"}

\* what the main program stores into the velocity on a reset, and where
RStored == [rsetx |-> -2, rsety |-> 0]

InitR ==
  /\ pc = "rsetup"
  /\ iScrollX = 0
  /\ iScrollY = 0
  /\ bPlayfield = [i \in 0..(PlayfieldSize - 1) |-> 0]
  /\ object_list = [i \in 0..0 |-> [x |-> 0, y |-> 0, bType |-> 0]]
  /\ bScrollX = 0
  /\ bScrollY = 0
  /\ y = 0
  /\ ty = 0
  /\ bXOff = 0
  /\ bYOff = 0
  /\ bTemp = Blank
  /\ reads = <<>>
  /\ nTile = 0
  /\ tileBuf = Blank
  /\ sprLog = <<>>
  /\ display = <<>>
  /\ arg = <<>>
  /\ res = <<>>
  /\ speed = 0
  /\ backgroundPosX = -2
  /\ backgroundPosY = 0
  /\ backgroundReset = 0
  /\ a0 = 0
  /\ c0 = 0
  /\ irq = 0
  /\ tmp = <<>>
  /\ hist = [frames |-> 0]
  /\ xTile = 0
  /\ txTile = 0
  /\ Count = 0
  /\ OldCount = 0

\* rotateBackground(), the handler of the encoder's interrupt, served between
\* two steps of the main program
rotateBackground ==
  /\ pc \in RotatePcs
  /\ \E a \in {0, 1}, b \in {0, 1} :
       \E e \in {EncoderStep(a, b, a0, c0)} :
         /\ a0' = e.a0
         /\ c0' = e.c0
         /\ e.count => irq < MaxIrq
         /\ irq' = IF e.count THEN irq + 1 ELSE irq
         /\ \E v \in {IF e.count
                      THEN rotateBackgroundTo(
                             [x |-> backgroundPosX, y |-> backgroundPosY],
                             e.up)
                      ELSE [x |-> backgroundPosX, y |-> backgroundPosY]} :
              /\ backgroundPosX' = v.x
              /\ backgroundPosY' = v.y
  /\ UNCHANGED <<pc, drawVars, iScrollX, iScrollY, speed, backgroundReset,
                 tmp, hist, tileVars,
                 countVars>>

\* setup(): the playfield is filled, the object list set, the scroll
\* position set to (1, 1)
RSetup ==
  /\ pc = "rsetup"
  /\ \E c \in UninitBytes : bPlayfield' = SetupCells(c)
  /\ object_list' = [i \in 0..0 |-> [x |-> 54, y |-> 24, bType |-> 128]]
  /\ iScrollX' = 1
  /\ iScrollY' = 1
  /\ pc' = "rdraw"
  /\ UNCHANGED <<bScrollX, bScrollY, frameVars, speed, velVars, a0, c0, irq,
                 tmp, hist, tileVars,
                 countVars>>

\* loop(): DrawPlayfield(iScrollX, iScrollY), which reads the sketch's state
\* and stores into the row buffer alone, then if ((++speed % 3) == 0)
RDraw ==
  /\ pc = "rdraw"
  /\ hist.frames < MaxFrames
  /\ hist' = [hist EXCEPT !.frames = hist.frames + 1]
  /\ bScrollX' = Lo(iScrollX)
  /\ bScrollY' = Lo(iScrollY)
  /\ speed' = (speed + 1) % 3
  /\ pc' = IF speed' = 0 THEN "raddx" ELSE "rfix"
  /\ irq' = 0
  /\ UNCHANGED <<frameVars, bPlayfield, object_list, iScrollX, iScrollY,
                 velVars, a0, c0, tmp, tileVars,
                 countVars>>

\* the main program reads the first byte of the velocity it is about to add
RReadFirstByte ==
  /\ tmp = <<>>
  /\ \/ pc = "raddx" /\ iScrollX < 143 /\ tmp' = <<"r", backgroundPosX>>
     \/ pc = "raddy" /\ iScrollY < 79 /\ tmp' = <<"r", backgroundPosY>>
  /\ UNCHANGED <<pc, drawVars, iScrollX, iScrollY, speed, velVars, a0, c0,
                 irq, hist, tileVars,
                 countVars>>

\* iScrollX = (iScrollX >= 143) ? 0 : (iScrollX + backgroundPosX)
RAddX ==
  /\ pc = "raddx"
  /\ IF iScrollX >= 143
     THEN iScrollX' = 0
     ELSE /\ tmp # <<>>
          /\ \E v \in TornRead(tmp[2], backgroundPosX) :
               iScrollX' = Int16(iScrollX + v)
  /\ tmp' = <<>>
  /\ pc' = "raddy"
  /\ UNCHANGED <<drawVars, iScrollY, speed, velVars, a0, c0, irq, hist,
                 tileVars,
                 countVars>>

\* iScrollY = (iScrollY >= 79) ? 0 : (iScrollY + backgroundPosY)
RAddY ==
  /\ pc = "raddy"
  /\ IF iScrollY >= 79
     THEN iScrollY' = 0
     ELSE /\ tmp # <<>>
          /\ \E v \in TornRead(tmp[2], backgroundPosY) :
               iScrollY' = Int16(iScrollY + v)
  /\ tmp' = <<>>
  /\ pc' = "rclick"
  /\ UNCHANGED <<drawVars, iScrollX, speed, velVars, a0, c0, irq, hist,
                 tileVars,
                 countVars>>

\* if (analogRead(EncoderClick) < 940) backgroundReset = 1
RClick ==
  /\ pc = "rclick"
  /\ \E pressed \in BOOLEAN :
       backgroundReset' = IF pressed THEN 1 ELSE backgroundReset
  /\ pc' = "rfix"
  /\ UNCHANGED <<drawVars, iScrollX, iScrollY, speed, backgroundPosX,
                 backgroundPosY, a0, c0, irq, tmp, hist, tileVars,
                 countVars>>

\* if (iScrollX < 0) iScrollX = 142; if (iScrollY < 0) iScrollY = 78
RFix ==
  /\ pc = "rfix"
  /\ iScrollX' = IF iScrollX < 0 THEN 142 ELSE iScrollX
  /\ iScrollY' = IF iScrollY < 0 THEN 78 ELSE iScrollY
  /\ pc' = "rreset"
  /\ UNCHANGED <<drawVars, speed, velVars, a0, c0, irq, tmp, hist, tileVars,
                 countVars>>

\* if (backgroundReset == 1) { backgroundReset = 0; ...
RReset ==
  /\ pc = "rreset"
  /\ backgroundReset' = 0
  /\ pc' = IF backgroundReset = 1 THEN "rsetx" ELSE "rdraw"
  /\ UNCHANGED <<drawVars, iScrollX, iScrollY, speed, backgroundPosX,
                 backgroundPosY, a0, c0, irq, tmp, hist, tileVars,
                 countVars>>

\* ... backgroundPosX = -2; backgroundPosY = 0; }: the first byte of each
RWriteFirstByte ==
  /\ pc \in DOMAIN RStored
  /\ tmp = <<>>
  /\ \E half \in {"lo", "hi"} :
       /\ tmp' = <<"w", half>>
       /\ IF pc = "rsetx"
          THEN /\ backgroundPosX' = HalfWrite(backgroundPosX, RStored[pc], half)
               /\ UNCHANGED backgroundPosY
          ELSE /\ backgroundPosY' = HalfWrite(backgroundPosY, RStored[pc], half)
               /\ UNCHANGED backgroundPosX
  /\ UNCHANGED <<pc, drawVars, iScrollX, iScrollY, speed, backgroundReset,
                 a0, c0, irq, hist, tileVars,
                 countVars>>

\* ... and the second byte
RWriteSecondByte ==
  /\ pc \in DOMAIN RStored
  /\ tmp # <<>>
  /\ IF pc = "rsetx"
     THEN /\ backgroundPosX' = HalfWrite(backgroundPosX, RStored[pc],
                                         OtherHalf(tmp[2]))
          /\ UNCHANGED backgroundPosY
     ELSE /\ backgroundPosY' = HalfWrite(backgroundPosY, RStored[pc],
                                         OtherHalf(tmp[2]))
          /\ UNCHANGED backgroundPosX
  /\ tmp' = <<>>
  /\ pc' = IF pc = "rsetx" THEN "rsety" ELSE "rdraw"
  /\ UNCHANGED <<drawVars, iScrollX, iScrollY, speed, backgroundReset, a0,
                 c0, irq, hist, tileVars,
                 countVars>>

NextR ==
  \/ rotateBackground
  \/ RSetup
  \/ RDraw
  \/ RReadFirstByte
  \/ RAddX
  \/ RAddY
  \/ RClick
  \/ RFix
  \/ RReset
  \/ RWriteFirstByte
  \/ RWriteSecondByte

SpecR == InitR /\ [][NextR]_vars

----------------------------------------------------------------------------
(* The host harness: main() stores the first 8 rows of its 20x16 tile map  *)
(* into a 16x8 playfield and calls DrawPlayfield(0, 0) once; this          *)
(* DrawPlayfield fills the row buffer page by page and sends nothing.      *)

HostRows == 8

HostCols == 16

\* ucTiles of the harness: 18 glyphs of 8 bytes
ucTilesH ==
  <<
    0, 0, 0, 0, 0, 0, 0, 0,
    255, 255, 255, 255, 255, 255, 255, 255,
    255, 255, 255, 255, 255, 255, 255, 255,
    127, 33, 125, 61, 125, 63, 85, 0,
    0, 20, 20, 20, 20, 20, 20, 0,
    96, 48, 24, 12, 6, 3, 1, 0,
    1, 3, 6, 12, 24, 48, 96, 0,
    84, 0, 5, 0, 81, 168, 241, 24,
    17, 168, 81, 224, 1, 4, 1, 254,
    213, 128, 160, 128, 128, 128, 128, 138,
    181, 183, 129, 129, 128, 160, 128, 255,
    106, 129, 128, 181, 140, 129, 192, 255,
    170, 193, 232, 213, 232, 213, 190, 127,
    44, 94, 166, 224, 192, 12, 204, 238,
    174, 14, 224, 234, 238, 12, 224, 238,
    222, 24, 194, 158, 218, 116, 56, 0,
    170, 95, 170, 95, 170, 95, 170, 95,
    138, 0, 42, 0, 138, 0, 42, 0
  >>

\* tileMap of the harness: 20 rows of 16 tile indices
tileMapH ==
  <<
    <<12, 12, 0, 0, 0, 0, 0, 0, 0, 0, 0, 0, 0, 0, 0, 12>>,
    <<12, 0, 12, 0, 0, 0, 0, 0, 0, 0, 0, 0, 0, 0, 0, 12>>,
    <<12, 0, 0, 12, 0, 0, 0, 0, 0, 0, 0, 0, 0, 0, 0, 12>>,
    <<12, 0, 0, 0, 12, 0, 0, 0, 0, 0, 0, 0, 0, 0, 0, 12>>,
    <<12, 0, 0, 0, 0, 12, 0, 0, 0, 0, 0, 0, 0, 0, 0, 12>>,
    <<12, 0, 0, 0, 0, 0, 12, 0, 0, 0, 0, 0, 0, 0, 0, 12>>,
    <<12, 0, 0, 0, 0, 0, 0, 12, 0, 0, 0, 0, 0, 0, 0, 12>>,
    <<12, 12, 12, 12, 12, 12, 0, 0, 12, 0, 12, 12, 12, 12, 12, 12>>,
    <<12, 0, 0, 0, 0, 0, 0, 0, 0, 12, 0, 0, 0, 0, 0, 12>>,
    <<12, 0, 0, 0, 0, 0, 0, 0, 0, 0, 12, 0, 0, 0, 0, 12>>,
    <<12, 0, 0, 0, 0, 0, 0, 0, 0, 0, 0, 12, 0, 0, 0, 12>>,
    <<12, 0, 0, 0, 0, 0, 0, 0, 0, 0, 0, 0, 12, 0, 0, 12>>,
    <<12, 0, 0, 0, 0, 0, 0, 0, 0, 0, 0, 0, 0, 12, 0, 12>>,
    <<12, 0, 0, 0, 0, 0, 0, 0, 0, 0, 0, 0, 0, 0, 12, 12>>,
    <<12, 0, 0, 0, 0, 0, 0, 0, 0, 0, 0, 0, 0, 12, 12, 12>>,
    <<12, 0, 0, 0, 0, 0, 0, 0, 0, 0, 0, 0, 12, 12, 12, 12>>,
    <<12, 0, 0, 0, 0, 0, 0, 0, 0, 0, 0, 12, 12, 12, 12, 12>>,
    <<12, 0, 0, 0, 0, 0, 0, 0, 0, 0, 12, 12, 12, 12, 12, 12>>,
    <<12, 0, 0, 0, 0, 0, 0, 0, 0, 12, 12, 12, 12, 12, 12, 12>>,
    <<12, 0, 0, 0, 0, 0, 0, 0, 12, 12, 12, 12, 12, 12, 12, 12>>
  >>

\* faulty variant: the glyph of the next tile index
HostGlyph_NextTile(c, xoff, n) ==
  [z \in 1..n |-> ucTilesH[(c + 1) * 8 + xoff + z]]

\* the n bytes at s = &ucTiles[(c * MODULE) + bXOff]
HostGlyph(c, xoff, n) == [z \in 1..n |-> ucTilesH[c * 8 + xoff + z]]

\* bTemp after the bytes b are stored from d on
StoreAt(buf, d, b) ==
  [i \in 0..(SCREEN_WIDTH - 1) |->
     IF i \in d..(d + Len(b) - 1) THEN b[i - d + 1] ELSE buf[i]]

\* iOffset2: the next line, wrapped once past the bottom
HostNextLine(iOffset) ==
  IF iOffset + HostCols >= HostRows * HostCols
  THEN iOffset + HostCols - HostRows * HostCols
  ELSE iOffset + HostCols

HostWrapTx(t) == IF t >= HostCols THEN t - HostCols ELSE t

\* the state at the head of main(): statics are zero
InitH ==
  /\ pc = "hstore"
  /\ bPlayfield = [i \in 0..(HostRows * HostCols - 1) |-> 0]
  /\ object_list = [i \in 0..0 |-> [x |-> 0, y |-> 0, bType |-> 0]]
  /\ bScrollX = 0
  /\ bScrollY = 0
  /\ y = 0
  /\ ty = 0
  /\ bXOff = 0
  /\ bYOff = 0
  /\ bTemp = Blank
  /\ reads = <<>>
  /\ nTile = 0
  /\ tileBuf = Blank
  /\ sprLog = <<>>
  /\ display = <<>>
  /\ arg = <<>>
  /\ res = <<>>
  /\ SketchIdle

\* main(): one turn of the loop that stores the tiles, row y
HStore ==
  /\ pc = "hstore"
  /\ bPlayfield' = [i \in 0..(HostRows * HostCols - 1) |->
                      IF i \div HostCols = y
                      THEN tileMapH[y + 1][(i % HostCols) + 1]
                      ELSE bPlayfield[i]]
  /\ y' = y + 1
  /\ pc' = IF y + 1 < HostRows THEN "hstore" ELSE "hcall"
  /\ UNCHANGED <<bScrollX, bScrollY, ty, bXOff, bYOff, bTemp, object_list,
                 reads, nTile, tileBuf, sprLog, display, arg, res>>
  /\ UNCHANGED <<sketchVars, tileVars,
                 countVars>>

\* iScrollX = 0; iScrollY = 0; DrawPlayfield(iScrollX, iScrollY): entry
HCall ==
  /\ pc = "hcall"
  /\ iScrollX' = 0
  /\ iScrollY' = 0
  /\ bScrollX' = Lo(iScrollX')
  /\ bScrollY' = Lo(iScrollY')
  /\ bXOff' = bScrollX' % 8
  /\ bYOff' = bScrollY' % 8
  /\ ty' = Shr(bScrollY', 3)
  /\ y' = 0
  /\ pc' = "hpage"
  /\ UNCHANGED <<bTemp, bPlayfield, object_list, reads, nTile, tileBuf,
                 sprLog, display, arg, res, speed, backgroundPosX,
                 backgroundPosY, backgroundReset, a0, c0, irq, tmp, hist,
                 tileVars,
                 countVars>>

\* the head of a page: memset, the row wrap, tx and d are set
HPage ==
  /\ pc = "hpage"
  /\ y < NumPages
  /\ bTemp' = Blank
  /\ ty' = IF ty >= HostRows THEN ty - HostRows ELSE ty
  /\ txTile' = Shr(bScrollX, 3)
  /\ xTile' = 0
  /\ nTile' = 0
  /\ reads' = <<>>
  /\ pc' = "htile"
  /\ UNCHANGED <<bScrollX, bScrollY, y, bXOff, bYOff, bPlayfield, object_list,
                 tileBuf, sprLog, display, arg, res, sketchVars, countVars>>

\* one turn of the loop over the 16 tiles of the page, in the branch that
\* bYOff selects
HTile ==
  /\ pc = "htile"
  /\ xTile < ViewportTiles
  /\ LET tx       == HostWrapTx(txTile)
         iOffset  == tx + ty * HostCols
         iOffset2 == HostNextLine(iOffset)
         n        == 8 - bXOff
         s        == HostGlyph(bPlayfield[iOffset], bXOff, n)
     IN  /\ IF bYOff # 0
            THEN /\ bTemp' = StoreAt(bTemp, nTile,
                               DrawShiftedChar(
                                 s, HostGlyph(bPlayfield[iOffset2], bXOff, n),
                                 bXOff, bYOff))
                 /\ reads' = Append(reads, <<iOffset, iOffset2>>)
            ELSE /\ bTemp' = StoreAt(bTemp, nTile, MemcpyP(s, n))
                 /\ reads' = Append(reads, <<iOffset, -1>>)
         /\ nTile' = nTile + n
         /\ txTile' = tx + 1
  /\ bXOff' = 0
  /\ xTile' = xTile + 1
  /\ UNCHANGED <<pc, bScrollX, bScrollY, y, ty, bYOff, bPlayfield,
                 object_list, tileBuf, sprLog, display, arg, res, sketchVars, countVars>>

\* the end of the page: the partial character of the shifted branch, which
\* takes MODULE - bXOff for its width, then ty++ and the next page; the row
\* buffer is not sent anywhere
HPageEnd ==
  /\ pc = "htile"
  /\ xTile >= ViewportTiles
  /\ IF bYOff # 0 /\ nTile # SCREEN_WIDTH
     THEN LET left     == SCREEN_WIDTH - nTile
              tx       == HostWrapTx(txTile)
              iOffset  == tx + ty * HostCols
              iOffset2 == HostNextLine(iOffset)
          IN  /\ bXOff' = left
              /\ txTile' = tx
              /\ bTemp' = StoreAt(bTemp, nTile,
                            DrawShiftedChar(
                              HostGlyph(bPlayfield[iOffset], 0, left),
                              HostGlyph(bPlayfield[iOffset2], 0, left),
                              8 - left, bYOff))
              /\ reads' = Append(reads, <<iOffset, iOffset2>>)
     ELSE UNCHANGED <<bXOff, txTile, bTemp, reads>>
  /\ tileBuf' = bTemp'
  /\ ty' = ty + 1
  /\ y' = y + 1
  /\ pc' = "hpage"
  /\ UNCHANGED <<bScrollX, bScrollY, bYOff, bPlayfield, object_list, nTile,
                 sprLog, display, arg, res, sketchVars, countVars, xTile>>

\* the loop over the pages ends; DrawPlayfield and main return
HReturn ==
  /\ pc = "hpage"
  /\ y >= NumPages
  /\ pc' = "hdone"
  /\ UNCHANGED <<drawVars, sketchVars, tileVars,
                 countVars>>

NextH == HStore \/ HCall \/ HPage \/ HTile \/ HPageEnd \/ HReturn

SpecH == InitH /\ [][NextH]_vars

----------------------------------------------------------------------------
(* Vocabulary of the properties: a byte as the set of its bit positions    *)
(* (bit 0 the least significant), and the sprite DrawSprites handled in    *)
(* its i-th turn.                                                           *)

Bits(a) == {b \in 0..7 : (a \div (2 ^ b)) % 2 = 1}

InSeq(c, s) == \E j \in 1..Len(s) : s[j] = c

Min(a, b) == IF a < b THEN a ELSE b

PageTop == y * 8

ObjOf(i) == object_list[i - 1]

IsBig(o) == o.bType \div 128 = 1

PixelSize(o) == IF IsBig(o) THEN 16 ELSE 8

\* the three visibility tests, as the specification words them
PassesTests(o, y0) ==
  /\ o.y < y0 + 8
  /\ o.y + PixelSize(o) > y0
  /\ o.x < 128

\* glyph byte j (0-based) of the 16x16 and of the 8x8 sprite table
BigGlyph(j) == ucBigSprites[j + 1]

SmallGlyph(j) == ucSprites[j + 1]

\* the byte at column c after the first n sprites of the log
RECURSIVE ByteAfter(_, _)
ByteAfter(c, n) ==
  IF n = 0 THEN tileBuf[c]
  ELSE IF InSeq(c, sprLog[n].cols)
       THEN sprLog[n].new[CHOOSE j \in 1..Len(sprLog[n].cols) :
                            sprLog[n].cols[j] = c]
       ELSE ByteAfter(c, n - 1)

InFrameRange == bScrollX \in 0..143 /\ bScrollY \in 0..79

----------------------------------------------------------------------------
(* C1: for every pair of byte scroll offsets, every index with which       *)
(* DrawPlayfield reads bPlayfield lies in 0..179.                           *)
C1_ReadsInBounds ==
  \A i \in 1..Len(reads) :
    /\ reads[i][1] \in 0..179
    /\ reads[i][2] \in {-1} \cup 0..179

(* C2: for bScrollX in 0..143 and bScrollY in 0..79, the tile sampled at   *)
(* viewport position c of page p is the bPlayfield entry at row            *)
(* ((bScrollY >> 3) + p) mod 10, column ((bScrollX >> 3) + c) mod 18, and  *)
(* with bScrollY mod 8 # 0 the lower source is the same column of row      *)
(* ((bScrollY >> 3) + p + 1) mod 10.  Positions 0..15 are always sampled,  *)
(* position 16 exactly when bScrollX mod 8 # 0.                             *)
C2_SampledTile ==
  (InFrameRange /\ pc \in {"sprites", "send"}) =>
    /\ Len(reads) = IF bScrollX % 8 = 0 THEN 16 ELSE 17
    /\ \A c \in 0..(Len(reads) - 1) :
         LET col  == ((bScrollX \div 8) + c) % 18
             row  == ((bScrollY \div 8) + y) % 10
             row2 == ((bScrollY \div 8) + y + 1) % 10
         IN  /\ reads[c + 1][1] = row * 18 + col
             /\ reads[c + 1][2] =
                  IF bScrollY % 8 = 0 THEN -1 ELSE row2 * 18 + col

\* both wraps at once: tile column 18 reads index 0 and the lower source of
\* tile row 10 + 0 reads row 1
C2_Witness ==
  /\ pc = "sprites"
  /\ bScrollX = 141
  /\ bScrollY = 77
  /\ y = 1
  /\ Len(reads) = 17
  /\ reads[2] = <<0, 18>>

(* C3: for v in 1..7, each byte DrawShiftedChar writes is                  *)
(* (top >> v) | (bottom << (8 - v)) cut to 8 bits, top and bottom the      *)
(* bytes at the same position of the two source streams; 8 - bXOff bytes   *)
(* are written.                                                             *)
C3_ShiftedByte ==
  pc = "shifted" =>
    /\ Len(res) = 8 - arg.xoff
    /\ \A z \in 1..Len(res) :
         /\ res[z] \in Byte
         /\ Bits(res[z]) =
              Bits(arg.s1[z] \div (2 ^ arg.yoff))
                \cup Bits((arg.s2[z] * (2 ^ (8 - arg.yoff))) % 256)

C3_Witness ==
  /\ pc = "shifted"
  /\ arg.yoff = 3
  /\ arg.xoff = 0
  /\ arg.s1[1] = 170
  /\ arg.s2[1] = 85
  /\ arg.s2[2] = 88
  /\ res[1] = 181

\* a call whose two sources are the same uniformly filled column
UniformFill(f) ==
  /\ pc = "shifted"
  /\ \A z \in 1..8 : arg.s1[z] = f /\ arg.s2[z] = f

(* C4 as stated: for v in 1..7 and f in {0x00, 0xFF, 0x55, 0xAA},          *)
(* compositing top = bottom = f yields f.                                   *)
C4_FillUnchanged ==
  \A f \in {0, 255, 85, 170} :
    UniformFill(f) => \A z \in 1..Len(res) : res[z] = f

(* C4 amended: the fill is reproduced for f in {0x00, 0xFF} with every v,  *)
(* and for f in {0x55, 0xAA} with even v; with odd v, 0x55 yields 0xAA and *)
(* 0xAA yields 0x55.                                                        *)
C4_FillRotated ==
  /\ \A f \in {0, 255} :
       UniformFill(f) => \A z \in 1..Len(res) : res[z] = f
  /\ \A f \in {85, 170} :
       UniformFill(f) =>
         \A z \in 1..Len(res) :
           res[z] = IF arg.yoff % 2 = 0 THEN f ELSE 255 - f

C4_Witness ==
  /\ UniformFill(85)
  /\ arg.yoff = 3
  /\ arg.xoff = 0
  /\ res = [z \in 1..8 |-> 170]

(* C5: each byte DrawSprites writes is (previous byte AND effective mask)  *)
(* OR effective pattern, the previous byte being what the tiles and the    *)
(* sprites before it left there; for a byte-aligned sprite the mask is the *)
(* glyph's mask byte and the pattern the byte 32 (16x16) or 8 (8x8) bytes  *)
(* after it; 0xF0 with mask 0x0F and pattern 0x05 gives 0x05.               *)
C5_MaskThenPattern ==
  pc = "send" =>
    /\ \A i \in 1..Len(sprLog) :
         LET L == sprLog[i]
             o == ObjOf(i)
             h == IF o.y + 8 <= PageTop THEN 16 ELSE 0
         IN  \A x \in 1..Len(L.cols) :
               /\ L.old[x] = ByteAfter(L.cols[x], i - 1)
               /\ Bits(L.new[x]) =
                    (Bits(L.old[x]) \cap Bits(L.masks[x])) \cup Bits(L.pats[x])
               /\ (o.y % 8 = 0 /\ IsBig(o)) =>
                    /\ L.masks[x] = BigGlyph(h + x - 1)
                    /\ L.pats[x] = BigGlyph(h + x - 1 + 32)
               /\ (o.y % 8 = 0 /\ ~IsBig(o)) =>
                    /\ L.masks[x] = SmallGlyph(x - 1)
                    /\ L.pats[x] = SmallGlyph(x - 1 + 8)
    /\ \A c \in 0..127 : bTemp[c] = ByteAfter(c, Len(sprLog))
    /\ Composite(240, 15, 5) = 5

\* the aligned 16x16 object is composited over a sprite drawn before it
C5_Witness ==
  /\ pc = "send"
  /\ IsBig(ObjOf(16))
  /\ ObjOf(16).y % 8 = 0
  /\ sprLog[16].vis
  /\ \E x \in 1..Len(sprLog[16].cols) :
       /\ sprLog[16].old[x] # tileBuf[sprLog[16].cols[x]]
       /\ sprLog[16].new[x] # sprLog[16].old[x]

(* C6: a sprite is written on the page with top row y0 only if             *)
(* sprite.y < y0 + 8, sprite.y + size > y0 and sprite.x < 128; a sprite    *)
(* failing a test leaves every byte as it was, so the bytes that differ    *)
(* from the tile pass lie under sprites passing the tests; a sprite at     *)
(* y = 16 is skipped on page 0 and drawn on page 2.                         *)
C6_VisibleOnly ==
  pc = "send" =>
    /\ \A i \in 1..Len(sprLog) :
         /\ ~PassesTests(ObjOf(i), PageTop) => sprLog[i].cols = <<>>
         /\ (ObjOf(i).y = 16 /\ ObjOf(i).x < 128) =>
              /\ y = 0 => sprLog[i].cols = <<>>
              /\ y = 2 => sprLog[i].cols # <<>>
    /\ \A c \in 0..127 :
         bTemp[c] # tileBuf[c] =>
           \E i \in 1..Len(sprLog) :
             PassesTests(ObjOf(i), PageTop) /\ InSeq(c, sprLog[i].cols)

\* page 0: the object at y = 16 is skipped while other sprites are drawn
C6_Witness ==
  /\ pc = "send"
  /\ y = 0
  /\ ObjOf(16).y = 16
  /\ ObjOf(16).x < 128
  /\ sprLog[16].cols = <<>>
  /\ bTemp # tileBuf

(* C7: a visible sprite at x in 0..127 of width w writes exactly the       *)
(* columns x .. x + min(w, 128 - x) - 1, none of them beyond 127.           *)
C7_ClippedColumns ==
  pc = "send" =>
    \A i \in 1..Len(sprLog) :
      LET o == ObjOf(i)
          n == Min(PixelSize(o), 128 - o.x)
      IN  (PassesTests(o, PageTop) /\ o.x \in 0..127) =>
            /\ sprLog[i].vis
            /\ sprLog[i].cols = [j \in 1..n |-> o.x + j - 1]
            /\ \A j \in 1..Len(sprLog[i].cols) : sprLog[i].cols[j] \in 0..127

C7_Witness ==
  /\ pc = "send"
  /\ IsBig(ObjOf(16))
  /\ ObjOf(16).x = 124
  /\ sprLog[16].cols = <<124, 125, 126, 127>>
  /\ \E j \in 1..4 : sprLog[16].new[j] # sprLog[16].old[j]

(* C8: a visible 16x16 sprite with k = sprite.y mod 8 takes, in this       *)
(* order: k = 0, the unshifted relevant half; sprite.y + 8 <= y0, the      *)
(* lower half shifted right by 8 - k with 0xFF << k OR-ed into the mask;   *)
(* sprite.y > y0, the upper half shifted left by k with 0xFF >> (8 - k)    *)
(* OR-ed into the mask; otherwise the upper half shifted right by 8 - k    *)
(* OR-ed with the lower half shifted left by k, mask and pattern alike.    *)
C8_BigSpritePaths ==
  pc = "send" =>
    \A i \in 1..Len(sprLog) :
      LET L  == sprLog[i]
          o  == ObjOf(i)
          k  == o.y % 8
          up == 2 ^ k
          dn == 2 ^ (8 - k)
          h  == IF o.y + 8 <= PageTop THEN 16 ELSE 0
      IN  (L.vis /\ IsBig(o)) =>
            \A x \in 1..Len(L.cols) :
              LET j == x - 1
              IN  IF k = 0
                  THEN /\ L.masks[x] = BigGlyph(h + j)
                       /\ L.pats[x] = BigGlyph(h + 32 + j)
                  ELSE IF o.y + 8 <= PageTop
                  THEN /\ Bits(L.masks[x]) =
                            Bits(BigGlyph(16 + j) \div dn)
                              \cup Bits((255 * up) % 256)
                       /\ L.pats[x] = BigGlyph(48 + j) \div dn
                  ELSE IF o.y > PageTop
                  THEN /\ Bits(L.masks[x]) =
                            Bits((BigGlyph(j) * up) % 256)
                              \cup Bits(255 \div dn)
                       /\ L.pats[x] = (BigGlyph(32 + j) * up) % 256
                  ELSE /\ Bits(L.masks[x]) =
                            Bits(BigGlyph(j) \div dn)
                              \cup Bits((BigGlyph(16 + j) * up) % 256)
                       /\ Bits(L.pats[x]) =
                            Bits(BigGlyph(32 + j) \div dn)
                              \cup Bits((BigGlyph(48 + j) * up) % 256)

\* the 16x16 object straddles the page: both halves are combined
C8_Witness ==
  /\ pc = "send"
  /\ IsBig(ObjOf(16))
  /\ ObjOf(16).y = 3
  /\ y = 1
  /\ sprLog[16].path = "both"
  /\ Len(sprLog[16].cols) = 16
  /\ sprLog[16].pats[4] = 60

(* C9 as stated: a visible 8x8 sprite with k = sprite.y mod 8, k # 0, has  *)
(* its mask/pattern pair shifted by k bit positions, towards higher bits   *)
(* when sprite.y > y0 and towards lower bits when its top is above the     *)
(* page's top edge.                                                         *)
C9_ShiftByK ==
  pc = "send" =>
    \A i \in 1..Len(sprLog) :
      LET L == sprLog[i]
          o == ObjOf(i)
          k == o.y % 8
      IN  (L.vis /\ ~IsBig(o) /\ k # 0) =>
            \A x \in 1..Len(L.cols) :
              IF o.y > PageTop
              THEN L.pats[x] = (SmallGlyph(8 + x - 1) * (2 ^ k)) % 256
              ELSE L.pats[x] = SmallGlyph(8 + x - 1) \div (2 ^ k)

(* C9 amended: the pair is shifted by k bit positions towards higher bits  *)
(* when sprite.y > y0, and by 8 - k bit positions towards lower bits when  *)
(* the sprite's top is above the page's top edge; the bits of the mask     *)
(* that the shift vacates are set.                                          *)
C9_ShiftByKOrRest ==
  pc = "send" =>
    \A i \in 1..Len(sprLog) :
      LET L == sprLog[i]
          o == ObjOf(i)
          k == o.y % 8
      IN  (L.vis /\ ~IsBig(o) /\ k # 0) =>
            \A x \in 1..Len(L.cols) :
              IF o.y > PageTop
              THEN /\ L.pats[x] = (SmallGlyph(8 + x - 1) * (2 ^ k)) % 256
                   /\ Bits(L.masks[x]) =
                        Bits((SmallGlyph(x - 1) * (2 ^ k)) % 256)
                          \cup 0..(k - 1)
              ELSE /\ L.pats[x] = SmallGlyph(8 + x - 1) \div (2 ^ (8 - k))
                   /\ Bits(L.masks[x]) =
                        Bits(SmallGlyph(x - 1) \div (2 ^ (8 - k)))
                          \cup k..7

\* the 8x8 object hangs 3 rows into the page below its top
C9_Witness ==
  /\ pc = "send"
  /\ ~IsBig(ObjOf(16))
  /\ ObjOf(16).y = 3
  /\ y = 1
  /\ sprLog[16].vis
  /\ sprLog[16].pats[1] = 3
  /\ sprLog[16].masks[1] = 251

(* C10: for bScrollX in 0..143 and bScrollY in 0..79, when DrawSprites is  *)
(* called the tile pass has written all 128 bytes of the row buffer since  *)
(* the clear, also when bScrollX mod 8 # 0.                                 *)
C10_RowFilled ==
  (InFrameRange /\ pc = "sprites") => nTile = SCREEN_WIDTH

C10_Witness ==
  /\ pc = "sprites"
  /\ bScrollX = 141
  /\ bScrollY = 77
  /\ y = 7
  /\ nTile = 128
  /\ Len(reads) = 17

(* C11: one DrawPlayfield call sends, for p = 0, 1, ..., 7 in this order,  *)
(* one oledSetPosition(0, p) immediately followed by one data write of the *)
(* 128-byte row buffer, and nothing else; DrawSprites for page p, with     *)
(* y0 = 8 * p, runs on the buffer the tile pass of page p left and before  *)
(* that write, so the bytes written are the buffer as DrawSprites left it. *)
C11_PageProtocol ==
  pc \in {"call", "tiles", "sprites", "send", "done"} =>
    /\ Len(display) = 2 * y
    /\ \A p \in 0..(y - 1) :
         /\ display[2 * p + 1] = <<"pos", 0, p>>
         /\ display[2 * p + 2][1] = "data"
         /\ DOMAIN display[2 * p + 2][2] = 0..(SCREEN_WIDTH - 1)
    /\ pc = "done" => y = 8
    /\ pc = "send" =>
         /\ Len(sprLog) = numberOfSprites
         /\ \A i \in 1..Len(sprLog) :
              sprLog[i].vis = PassesTests(ObjOf(i), 8 * y)
         /\ \A c \in 0..(SCREEN_WIDTH - 1) :
              bTemp[c] = ByteAfter(c, Len(sprLog))
    /\ (pc = "tiles" /\ y > 0) =>
         /\ display[2 * y][2] = bTemp
         /\ \A c \in 0..(SCREEN_WIDTH - 1) :
              bTemp[c] = ByteAfter(c, Len(sprLog))

\* the frame is complete and page 4 went out with a sprite drawn over its
\* tiles
C11_Witness ==
  /\ pc = "done"
  /\ Len(display) = 16
  /\ display[15] = <<"pos", 0, 7>>
  /\ display[9] = <<"pos", 0, 4>>
  /\ \E c \in 72..87 : display[10][2][c] # display[8][2][c]

\* the positions of the vertical-scroll sketch inside DrawPlayfield
VDrawPcs == {"vadjust", "vpages", "vret"}

\* C12: a call of DrawPlayfield leaves bPlayfield, every object_list entry
\* and iScrollX/iScrollY as they were: no step of the main program from the
\* call to the return changes any of them.
C12_DrawLeavesStateAlone ==
  [][((pc = "vcall" \/ pc \in VDrawPcs) /\ pc' \in VDrawPcs /\ pc' # pc)
       => /\ bPlayfield' = bPlayfield
          /\ object_list' = object_list
          /\ iScrollX' = iScrollX
          /\ iScrollY' = iScrollY]_vars

\* playfield row r holds tile map row m
RowHolds(r, m) ==
  \A x \in 0..(PlayfieldCols - 1) :
    bPlayfield[r * PlayfieldCols + x] = TileMapAt(m, x)

\* C18: if every call of DrawPlayfield so far had iScrollY in 0..255 and a
\* tile row at most one away from the row of the call or reload before it,
\* then after adjustPlayField each playfield row the frame samples, row
\* ((iScrollY >> 3) + 1 + j) mod 10 for j = 0..8, holds tile map row
\* ((iScrollY >> 3) + 1 + j) mod 29.
C18_SampledRowsLoaded ==
  (pc = "vpages" /\ hist.ok)
    => \A j \in 0..NumPages :
         RowHolds((Shr(bScrollY, 3) + 1 + j) % PlayfieldRows,
                  (Shr(bScrollY, 3) + 1 + j) % TILEMAP_HEIGHT)

\* C19: at every call of DrawPlayfield 0 <= iScrollY < 240, so the byte
\* parameter bScrollY equals iScrollY, and the tile row adjustPlayField
\* derives is the one DrawPlayfield derived.
C19_CallInRange ==
  [][/\ (pc = "vcall" /\ pc' = "vadjust")
          => (iScrollY \in 0..239 /\ bScrollY' = iScrollY)
     /\ (pc = "vadjust" /\ pc' = "vpages")
          => hist'.currentRow = ty]_vars

\* C13: with bScrollX = 0, bScrollY = 0 and no sprite, the byte that
\* DrawPlayfield produces at column 8 * c + k of page p is byte k of the
\* glyph of the tile index at row p, column c of the playfield, which holds
\* the first 8 rows of the harness' tile map.
C13_UnscrolledGlyphs ==
  (pc = "htile" /\ xTile = ViewportTiles)
    => \A c \in 0..(ViewportTiles - 1), k \in 0..7 :
         /\ bPlayfield[y * HostCols + c] = tileMapH[y + 1][c + 1]
         /\ bTemp[8 * c + k] = ucTilesH[8 * tileMapH[y + 1][c + 1] + k + 1]

\* the last page is complete and shows glyph 12 in its first column
C13_Witness ==
  /\ pc = "htile"
  /\ xTile = ViewportTiles
  /\ y = NumPages - 1
  /\ bScrollX = 0
  /\ bScrollY = 0
  /\ bTemp[0] = 170
  /\ bTemp[7] = 127

\* C14: in the rotating-background sketch, after setup each of the 180
\* bPlayfield entries is 0 or 1, so the 8 bytes of every glyph DrawPlayfield
\* reads lie inside the 16 bytes of ucTiles.
C14_TileIndicesInTable ==
  pc \in RotatePcs \ {"rsetup"}
    => \A i \in 0..(PlayfieldSize - 1) :
         /\ bPlayfield[i] \in {0, 1}
         /\ bPlayfield[i] * 8 + 7 < Len(ucTilesR)

\* C17: in the rotating-background sketch, at every call of DrawPlayfield
\* 0 <= iScrollX <= 144 and 0 <= iScrollY <= 80, so the tile row of every
\* page, and with it every index into bPlayfield, is inside the buffer.
C17_ScrollInRange ==
  pc = "rdraw"
    => /\ iScrollX \in 0..144
       /\ iScrollY \in 0..80
       /\ \A p \in 0..(NumPages - 1) :
            TyAt(Shr(Lo(iScrollY), 3), p) < PlayfieldRows

\* the steps a call of DrawPlayfield is away from its return, at most
FrameVariant ==
  IF pc = "done" THEN 0
  ELSE 1 + 3 * (NumPages - y)
         + (CASE pc = "call" -> 3
              [] pc = "tiles" -> 2
              [] pc = "sprites" -> 1
              [] OTHER -> 0)

\* the guard of one of the actions of Next holds
CanStep ==
  \/ pc = "call"
  \/ pc = "tiles" /\ y < NumPages
  \/ pc = "sprites"
  \/ pc = "send"
  \/ pc = "tiles" /\ y >= NumPages

\* C15: every call of DrawPlayfield terminates after rendering and emitting
\* exactly 8 pages: every step brings the return closer, a call that has
\* not returned can take a step, and a call that has returned has sent 8
\* pages.
C15_FrameCompletes ==
  /\ [][FrameVariant' < FrameVariant]_vars
  /\ [](/\ FrameVariant >= 0
        /\ pc # "done" => CanStep
        /\ pc = "done" => (y = NumPages /\ Len(display) = 2 * NumPages))

\* a call with a scroll offset past the playfield and a sprite has returned
C15_Witness ==
  /\ pc = "done"
  /\ y = NumPages
  /\ Len(display) = 2 * NumPages
  /\ bScrollY >= 160
  /\ object_list[Mover].bType = 128

\* bit b of the byte v: the pixel in row b of its page
Bit(v, b) == (v \div (2 ^ b)) % 2

\* the glyph's mask bit and pattern bit at column cx, row ry of the sprite o
GlyphMaskBit(o, cx, ry) ==
  IF IsBig(o)
  THEN Bit(BigGlyph((o.bType % 128) * 64 + (ry \div 8) * 16 + cx), ry % 8)
  ELSE Bit(SmallGlyph((o.bType % 128) * 16 + cx), ry)

GlyphPatternBit(o, cx, ry) ==
  IF IsBig(o)
  THEN Bit(BigGlyph((o.bType % 128) * 64 + 32 + (ry \div 8) * 16 + cx), ry % 8)
  ELSE Bit(SmallGlyph((o.bType % 128) * 16 + 8 + cx), ry)

\* C16: for a single sprite of size n at (x, y), every displayed pixel
\* (X, Y) inside the sprite's square, X < 128 and Y < 64, is (tile pixel AND
\* mask bit at (X - x, Y - y)) OR pattern bit at (X - x, Y - y), bit 0 of a
\* byte being the top row of its page, and every other pixel is the tile
\* pixel; for every y, aligned to a page or not.
C16_PixelComposite ==
  pc = "snext" =>
    LET o == object_list[0]
        n == PixelSize(o)
    IN  \A X \in 0..(SCREEN_WIDTH - 1) :
          IF X \in o.x..(o.x + n - 1)
          THEN \A b \in 0..7 :
                 LET Y == 8 * y + b
                     t == Bit(tileBuf[X], b)
                 IN  Bit(bTemp[X], b) =
                       IF Y \in o.y..(o.y + n - 1)
                       THEN (IF \/ (t = 1 /\ GlyphMaskBit(o, X - o.x, Y - o.y) = 1)
                                \/ GlyphPatternBit(o, X - o.x, Y - o.y) = 1
                             THEN 1 ELSE 0)
                       ELSE t
          ELSE bTemp[X] = tileBuf[X]

\* the middle page of a 16x16 sprite that starts 5 rows into a page: both
\* halves of the glyph meet in it, and the row changed
C16_Witness ==
  /\ pc = "snext"
  /\ IsBig(object_list[0])
  /\ object_list[0].y = 13
  /\ y = 2
  /\ sprLog[1].path = "both"
  /\ bTemp # tileBuf

----------------------------------------------------------------------------
(* The horizontal-scroll sketch: the encoder's handler counts iScrollX up  *)
(* and down, loop() draws and wraps it.  iScrollX is a plain static int,   *)
(* shared between the two with no protection: the main program reads it    *)
(* byte by byte, and having tested the value it read it either keeps the   *)
(* variable as it is or stores that value back, as the build chooses.      *)

\* bounds: how far the handler counts to the left and to the right
MaxLeft == 2

MaxRight == 145

\* the positions of the sketch's main program
ScrollXPcs ==
  {"xsetup", "xdraw", "xwrapx", "xstorex", "xwrapy", "xclick", "xfixx",
   "xstorefix", "xfixy", "xreset"}

\* the playfield as setup() fills it
SetupCellsX ==
  [i \in 0..(PlayfieldSize - 1) |->
     LET row == i \div PlayfieldCols
         col == i % PlayfieldCols
     IN  IF row < 3 THEN (IF col % 2 = 1 THEN 15 ELSE 60)
         ELSE IF row = 7 THEN 3
         ELSE 0]

\* moveBackgroundTo(toRight) on iScrollX
moveBackgroundTo(v, toRight) == IF toRight THEN Int16(v + 1) ELSE Int16(v - 1)

\* the state in setup(), once the handler is attached
InitX ==
  /\ pc = "xsetup"
  /\ iScrollX = 0
  /\ iScrollY = 0
  /\ bPlayfield = [i \in 0..(PlayfieldSize - 1) |-> 0]
  /\ object_list = [i \in 0..0 |-> [x |-> 0, y |-> 0, bType |-> 0]]
  /\ bScrollX = 0
  /\ bScrollY = 0
  /\ y = 0
  /\ ty = 0
  /\ bXOff = 0
  /\ bYOff = 0
  /\ bTemp = Blank
  /\ reads = <<>>
  /\ nTile = 0
  /\ tileBuf = Blank
  /\ sprLog = <<>>
  /\ display = <<>>
  /\ arg = <<>>
  /\ res = <<>>
  /\ speed = 0
  /\ backgroundPosX = 0
  /\ backgroundPosY = 0
  /\ backgroundReset = 0
  /\ a0 = 0
  /\ c0 = 0
  /\ irq = 0
  /\ tmp = <<>>
  /\ hist = [before |-> 0, net |-> 0, wrapped |-> FALSE]
  /\ xTile = 0
  /\ txTile = 0
  /\ Count = 0
  /\ OldCount = 0

\* moveBackground() of this sketch, the handler of the encoder's interrupt,
\* served between two steps of the main program; hist.net sums the steps
\* it counts
moveBackgroundX ==
  /\ pc \in ScrollXPcs
  /\ \E a \in {0, 1}, b \in {0, 1} :
       \E e \in {EncoderStep(a, b, a0, c0)} :
         /\ a0' = e.a0
         /\ c0' = e.c0
         /\ irq' = IF e.count THEN irq + 1 ELSE irq
         /\ iScrollX' = IF e.count THEN moveBackgroundTo(iScrollX, e.up)
                        ELSE iScrollX
         /\ e.count => /\ irq < MaxIrq
                       /\ iScrollX' \in (-MaxLeft)..MaxRight
         /\ hist' = IF e.count
                    THEN [hist EXCEPT !.net = hist.net + iScrollX' - iScrollX]
                    ELSE hist
  /\ UNCHANGED <<pc, drawVars, iScrollY, speed, velVars, tmp, tileVars,
                 countVars>>

\* setup(): the playfield is filled, the object list set, the scroll
\* position set to (0, 0)
XSetup ==
  /\ pc = "xsetup"
  /\ bPlayfield' = SetupCellsX
  /\ object_list' = [i \in 0..0 |-> [x |-> 54, y |-> 40, bType |-> 128]]
  /\ iScrollX' = 0
  /\ iScrollY' = 0
  /\ pc' = "xdraw"
  /\ UNCHANGED <<bScrollX, bScrollY, frameVars, speed, velVars, a0, c0, irq,
                 tmp, hist, tileVars,
                 countVars>>

\* loop(): DrawPlayfield(iScrollX, iScrollY), then if ((++speed % 3) == 0);
\* the wrap statements of this turn follow, and hist starts over with
\* iScrollX as they find it
XDraw ==
  /\ pc = "xdraw"
  /\ bScrollX' = Lo(iScrollX)
  /\ bScrollY' = Lo(iScrollY)
  /\ speed' = (speed + 1) % 3
  /\ pc' = IF speed' = 0 THEN "xwrapx" ELSE "xfixx"
  /\ irq' = 0
  /\ hist' = [before |-> iScrollX, net |-> 0, wrapped |-> FALSE]
  /\ UNCHANGED <<frameVars, bPlayfield, object_list, iScrollX, iScrollY,
                 velVars, a0, c0, tmp, tileVars,
                 countVars>>

\* the main program reads the first byte of iScrollX for a test
XReadFirstByte ==
  /\ pc \in {"xwrapx", "xfixx"}
  /\ tmp = <<>>
  /\ tmp' = <<"r", iScrollX>>
  /\ UNCHANGED <<pc, drawVars, iScrollX, iScrollY, speed, velVars, a0, c0,
                 irq, hist, tileVars,
                 countVars>>

\* iScrollX = (iScrollX >= 143) ? 0 : iScrollX, from the second byte of the
\* read on: 0 or the value read is stored, or nothing where the value is kept
XWrapX ==
  /\ pc = "xwrapx"
  /\ tmp # <<>>
  /\ \E v \in TornRead(tmp[2], iScrollX) :
       IF v >= 143
       THEN /\ tmp' = <<"s", 0>>
            /\ pc' = "xstorex"
            /\ hist' = [hist EXCEPT !.wrapped = TRUE]
       ELSE /\ \/ tmp' = <<"s", v>> /\ pc' = "xstorex"
               \/ tmp' = <<>> /\ pc' = "xwrapy"
            /\ UNCHANGED hist
  /\ UNCHANGED <<drawVars, iScrollX, iScrollY, speed, velVars, a0, c0, irq,
                 tileVars,
                 countVars>>

\* a store into iScrollX: the first byte
XWriteFirstByte ==
  /\ pc \in {"xstorex", "xstorefix"}
  /\ tmp[1] = "s"
  /\ \E half \in {"lo", "hi"} :
       /\ iScrollX' = HalfWrite(iScrollX, tmp[2], half)
       /\ tmp' = <<"w", tmp[2], half>>
  /\ UNCHANGED <<pc, drawVars, iScrollY, speed, velVars, a0, c0, irq, hist,
                 tileVars,
                 countVars>>

\* ... and the second byte
XWriteSecondByte ==
  /\ pc \in {"xstorex", "xstorefix"}
  /\ tmp[1] = "w"
  /\ iScrollX' = HalfWrite(iScrollX, tmp[2], OtherHalf(tmp[3]))
  /\ tmp' = <<>>
  /\ pc' = IF pc = "xstorex" THEN "xwrapy" ELSE "xfixy"
  /\ UNCHANGED <<drawVars, iScrollY, speed, velVars, a0, c0, irq, hist,
                 tileVars,
                 countVars>>

\* iScrollY = (iScrollY >= 79) ? 0 : iScrollY; the handler leaves iScrollY
\* alone
XWrapY ==
  /\ pc = "xwrapy"
  /\ iScrollY' = IF iScrollY >= 79 THEN 0 ELSE iScrollY
  /\ pc' = "xclick"
  /\ UNCHANGED <<drawVars, iScrollX, speed, velVars, a0, c0, irq, tmp, hist,
                 tileVars,
                 countVars>>

\* if (analogRead(EncoderClick) < 940) backgroundReset = 1
XClick ==
  /\ pc = "xclick"
  /\ \E pressed \in BOOLEAN :
       backgroundReset' = IF pressed THEN 1 ELSE backgroundReset
  /\ pc' = "xfixx"
  /\ UNCHANGED <<drawVars, iScrollX, iScrollY, speed, backgroundPosX,
                 backgroundPosY, a0, c0, irq, tmp, hist, tileVars,
                 countVars>>

\* if (iScrollX < 0) iScrollX = 142, from the second byte of the read on
XFixX ==
  /\ pc = "xfixx"
  /\ tmp # <<>>
  /\ \E v \in TornRead(tmp[2], iScrollX) :
       IF v < 0
       THEN /\ tmp' = <<"s", 142>>
            /\ pc' = "xstorefix"
            /\ hist' = [hist EXCEPT !.wrapped = TRUE]
       ELSE /\ tmp' = <<>>
            /\ pc' = "xfixy"
            /\ UNCHANGED hist
  /\ UNCHANGED <<drawVars, iScrollX, iScrollY, speed, velVars, a0, c0, irq,
                 tileVars,
                 countVars>>

\* if (iScrollY < 0) iScrollY = 78
XFixY ==
  /\ pc = "xfixy"
  /\ iScrollY' = IF iScrollY < 0 THEN 78 ELSE iScrollY
  /\ pc' = "xreset"
  /\ UNCHANGED <<drawVars, iScrollX, speed, velVars, a0, c0, irq, tmp, hist,
                 tileVars,
                 countVars>>

\* if (backgroundReset == 1) { backgroundReset = 0; backgroundPosX = 0;
\* backgroundPosY = 0; }
XReset ==
  /\ pc = "xreset"
  /\ backgroundReset' = 0
  /\ backgroundPosX' = IF backgroundReset = 1 THEN 0 ELSE backgroundPosX
  /\ backgroundPosY' = IF backgroundReset = 1 THEN 0 ELSE backgroundPosY
  /\ pc' = "xdraw"
  /\ UNCHANGED <<drawVars, iScrollX, iScrollY, speed, a0, c0, irq, tmp, hist,
                 tileVars,
                 countVars>>

NextX ==
  \/ moveBackgroundX
  \/ XSetup
  \/ XDraw
  \/ XReadFirstByte
  \/ XWrapX
  \/ XWriteFirstByte
  \/ XWriteSecondByte
  \/ XWrapY
  \/ XClick
  \/ XFixX
  \/ XFixY
  \/ XReset

SpecX == InitX /\ [][NextX]_vars

\* C20: in the horizontal-scroll sketch no counted encoder step is lost:
\* where the handler changed iScrollX while the main loop went through its
\* wrap statements and the loop took neither wrap, iScrollX after the
\* statements is its value before them plus the handler's net change.
C20_NoStepLost ==
  (pc = "xfixy" /\ ~hist.wrapped)
    => iScrollX = Int16(hist.before + hist.net)

\* the perimeter of the square [-2, 2] x [-2, 2]
OnPerimeter(vx, vy) ==
  /\ vx \in -2..2
  /\ vy \in -2..2
  /\ (vx \in {-2, 2} \/ vy \in {-2, 2})

\* C21: in every reachable state of the rotating-background sketch, under
\* every interleaving of encoder interrupts with the main loop's click
\* reset, the velocity (backgroundPosX, backgroundPosY) lies on the
\* perimeter of the square [-2, 2] x [-2, 2]; states in which the main
\* program is half way through a two-byte store are left out.
C21_VelocityOnPerimeter ==
  (pc \in RotatePcs /\ tmp = <<>>)
    => OnPerimeter(backgroundPosX, backgroundPosY)

----------------------------------------------------------------------------
(* The velocity of the rotating-background sketch under encoder steps      *)
(* alone: the handler is served again and again, the main program never    *)
(* touches the velocity.  hist keeps the directions of the last two        *)
(* counted steps and the velocity before each of them.                     *)

InitTurn ==
  /\ pc = "turn"
  /\ object_list = [i \in 0..0 |-> [x |-> 0, y |-> 0, bType |-> 0]]
  /\ bPlayfield = <<>>
  /\ bScrollX = 0
  /\ bScrollY = 0
  /\ y = 0
  /\ ty = 0
  /\ bXOff = 0
  /\ bYOff = 0
  /\ bTemp = Blank
  /\ reads = <<>>
  /\ nTile = 0
  /\ tileBuf = Blank
  /\ sprLog = <<>>
  /\ display = <<>>
  /\ arg = <<>>
  /\ res = <<>>
  /\ iScrollX = 0
  /\ iScrollY = 0
  /\ speed = 0
  /\ backgroundPosX = -2
  /\ backgroundPosY = 0
  /\ backgroundReset = 0
  /\ a0 = 0
  /\ c0 = 0
  /\ irq = 0
  /\ tmp = <<>>
  /\ hist = [dirs |-> <<>>, was |-> <<>>]
  /\ xTile = 0
  /\ txTile = 0
  /\ Count = 0
  /\ OldCount = 0

\* rotateBackground(), served on its own
EncoderTurn ==
  /\ pc = "turn"
  /\ \E a \in {0, 1}, b \in {0, 1} :
       \E e \in {EncoderStep(a, b, a0, c0)} :
         /\ a0' = e.a0
         /\ c0' = e.c0
         /\ \E v \in {IF e.count
                      THEN rotateBackgroundTo(
                             [x |-> backgroundPosX, y |-> backgroundPosY],
                             e.up)
                      ELSE [x |-> backgroundPosX, y |-> backgroundPosY]} :
              /\ backgroundPosX' = v.x
              /\ backgroundPosY' = v.y
         /\ hist' = IF e.count
                    THEN [dirs |-> IF hist.dirs = <<>> THEN <<e.up>>
                                   ELSE <<hist.dirs[Len(hist.dirs)], e.up>>,
                          was |-> IF hist.was = <<>>
                                  THEN <<[x |-> backgroundPosX,
                                          y |-> backgroundPosY]>>
                                  ELSE <<hist.was[Len(hist.was)],
                                         [x |-> backgroundPosX,
                                          y |-> backgroundPosY]>>]
                    ELSE hist
  /\ UNCHANGED <<pc, drawVars, iScrollX, iScrollY, speed, backgroundReset,
                 irq, tmp, tileVars,
                 countVars>>

NextTurn == EncoderTurn

SpecTurn == InitTurn /\ [][NextTurn]_vars

\* C22: from every velocity reached from (-2, 0) by encoder steps alone, a
\* step clockwise followed by a step anticlockwise returns to the same
\* (backgroundPosX, backgroundPosY), and so does the reverse order.
C22_StepsAreInverses ==
  (pc = "turn" /\ Len(hist.dirs) = 2 /\ hist.dirs[1] # hist.dirs[2])
    => [x |-> backgroundPosX, y |-> backgroundPosY] = hist.was[1]

\* a step clockwise past the corner (-2, -2) and the step back
C22_Witness ==
  /\ pc = "turn"
  /\ hist.dirs = <<TRUE, FALSE>>
  /\ hist.was = <<[x |-> -2, y |-> -1], [x |-> -1, y |-> -2]>>
  /\ backgroundPosX = -2
  /\ backgroundPosY = -1

----------------------------------------------------------------------------
(* The rotary-encoder serial sketch: the handler changeRotary counts the   *)
(* encoder's steps into Count, loop() prints Count when it differs from    *)
(* OldCount and sets it to 0 on a click.  Count is a volatile int: the     *)
(* main program reads and writes it one byte at a time with interrupts     *)
(* enabled.  OldCount is touched by the main program alone.  hist keeps    *)
(* the value printed last, the level of B the handler sampled last, the    *)
(* number of times the handler changed Count since B had that level, and   *)
(* the number of steps counted so far.                                     *)

CountMax == 1000

\* bounds: the sketch is followed from the values of Count below, each
\* reached by an even number of steps clockwise, all of them printed, and
\* from there for MaxSteps counted steps of the encoder
CountSamples == {0, 254, 998}

MaxSteps == 3

\* the positions of the sketch's main program; every step of the main
\* program moves to another position
EncoderPcs ==
  {"esetup", "ecmp", "ecmp2", "eprint", "eprint2", "eold", "eold2",
   "eclick", "ezero", "ezero2", "edelay"}

\* faulty variant: the count is not held inside 0..1000
ChangeValue_Unclamped(count, up) == Int16(count + (IF up THEN 1 ELSE -1))

\* ChangeValue(Up) on Count: max(min(Count + (Up ? 1 : -1), 1000), 0)
ChangeValue(count, up) ==
  LET v == Int16(count + (IF up THEN 1 ELSE -1))
      m == IF v < CountMax THEN v ELSE CountMax
  IN  IF m > 0 THEN m ELSE 0

InitE ==
  /\ object_list = [i \in 0..0 |-> [x |-> 0, y |-> 0, bType |-> 0]]
  /\ bPlayfield = <<>>
  /\ bScrollX = 0
  /\ bScrollY = 0
  /\ y = 0
  /\ ty = 0
  /\ bXOff = 0
  /\ bYOff = 0
  /\ bTemp = Blank
  /\ reads = <<>>
  /\ nTile = 0
  /\ tileBuf = Blank
  /\ sprLog = <<>>
  /\ display = <<>>
  /\ arg = <<>>
  /\ res = <<>>
  /\ iScrollX = 0
  /\ iScrollY = 0
  /\ speed = 0
  /\ backgroundPosX = 0
  /\ backgroundPosY = 0
  /\ backgroundReset = 0
  /\ a0 = 0
  /\ c0 = 0
  /\ irq = 0
  /\ tmp = <<>>
  /\ xTile = 0
  /\ txTile = 0
  /\ \E c \in CountSamples :
       /\ Count = c
       /\ OldCount = c
       /\ pc = IF c = 0 THEN "esetup" ELSE "ecmp"
       /\ hist = IF c = 0
                 THEN [printed |-> <<>>, b |-> <<>>, changes |-> 0,
                       steps |-> 0]
                 ELSE [printed |-> <<c>>, b |-> <<0>>, changes |-> 1,
                       steps |-> 0]

\* what a step leaves alone besides the variables of this sketch
EncoderRest ==
  <<drawVars, iScrollX, iScrollY, speed, velVars, tileVars>>

\* changeRotary(), the handler of the encoder's interrupt, served between
\* two steps of the main program with the levels a and b of the two pins
changeRotary ==
  /\ pc \in EncoderPcs
  /\ \E a \in {0, 1}, b \in {0, 1} :
       \E e \in {EncoderStep(a, b, a0, c0)} :
         /\ a0' = e.a0
         /\ c0' = e.c0
         /\ e.count => (irq < MaxIrq /\ hist.steps < MaxSteps)
         /\ irq' = IF e.count THEN irq + 1 ELSE irq
         /\ Count' = IF e.count THEN ChangeValue(Count, e.up) ELSE Count
         /\ hist' = [hist EXCEPT
                       !.b = <<b>>,
                       !.steps = hist.steps + (IF e.count THEN 1 ELSE 0),
                       !.changes = (IF hist.b = <<b>> THEN hist.changes ELSE 0)
                                   + (IF Count' # Count THEN 1 ELSE 0)]
  /\ UNCHANGED <<pc, OldCount, tmp, EncoderRest>>

\* setup(): the pins, attachInterrupt, the serial line and its greeting
ESetup ==
  /\ pc = "esetup"
  /\ pc' = "ecmp"
  /\ UNCHANGED <<Count, OldCount, a0, c0, irq, tmp, hist, EncoderRest>>

\* a two-byte read of Count: the first byte
EReadFirstByte ==
  /\ pc \in {"ecmp", "eprint", "eold"}
  /\ tmp' = <<Count>>
  /\ pc' = IF pc = "ecmp" THEN "ecmp2"
           ELSE IF pc = "eprint" THEN "eprint2" ELSE "eold2"
  /\ UNCHANGED <<Count, OldCount, a0, c0, irq, hist, EncoderRest>>

\* if (OldCount != Count), from the second byte of Count on
ECompare ==
  /\ pc = "ecmp2"
  /\ \E v \in TornRead(tmp[1], Count) :
       pc' = IF OldCount # v THEN "eprint" ELSE "eclick"
  /\ tmp' = <<>>
  /\ UNCHANGED <<Count, OldCount, a0, c0, irq, hist, EncoderRest>>

\* MySerial.print("Turning: "); MySerial.println(Count)
EPrint ==
  /\ pc = "eprint2"
  /\ \E v \in TornRead(tmp[1], Count) :
       hist' = [hist EXCEPT !.printed = <<v>>]
  /\ tmp' = <<>>
  /\ pc' = "eold"
  /\ UNCHANGED <<Count, OldCount, a0, c0, irq, EncoderRest>>

\* OldCount = Count
EOldCount ==
  /\ pc = "eold2"
  /\ \E v \in TornRead(tmp[1], Count) : OldCount' = v
  /\ tmp' = <<>>
  /\ pc' = "eclick"
  /\ UNCHANGED <<Count, a0, c0, irq, hist, EncoderRest>>

\* if (analogRead(EncoderClick) < 940)
EClick ==
  /\ pc = "eclick"
  /\ \E pressed \in BOOLEAN : pc' = IF pressed THEN "ezero" ELSE "edelay"
  /\ UNCHANGED <<Count, OldCount, a0, c0, irq, tmp, hist, EncoderRest>>

\* Count = 0: the first byte
EZeroFirstByte ==
  /\ pc = "ezero"
  /\ \E half \in {"lo", "hi"} :
       /\ Count' = HalfWrite(Count, 0, half)
       /\ tmp' = <<half>>
  /\ pc' = "ezero2"
  /\ UNCHANGED <<OldCount, a0, c0, irq, hist, EncoderRest>>

\* ... and the second byte
EZeroSecondByte ==
  /\ pc = "ezero2"
  /\ Count' = HalfWrite(Count, 0, OtherHalf(tmp[1]))
  /\ tmp' = <<>>
  /\ pc' = "edelay"
  /\ UNCHANGED <<OldCount, a0, c0, irq, hist, EncoderRest>>

\* delay(DELAY), and loop() starts over
EDelay ==
  /\ pc = "edelay"
  /\ pc' = "ecmp"
  /\ irq' = 0
  /\ UNCHANGED <<Count, OldCount, a0, c0, tmp, hist, EncoderRest>>

NextE ==
  \/ changeRotary
  \/ ESetup
  \/ EReadFirstByte
  \/ ECompare
  \/ EPrint
  \/ EOldCount
  \/ EClick
  \/ EZeroFirstByte
  \/ EZeroSecondByte
  \/ EDelay

SpecE == InitE /\ [][NextE]_vars

\* C23: the encoder handler is bounce-free: an invocation of changeRotary
\* changes Count only if the sampled A differs from a0 and the sampled B
\* from c0, by +1 when A equals B and by -1 otherwise, and over any number
\* of consecutive interrupts during which B keeps the same level Count is
\* changed at most once.
C23_BounceFree ==
  /\ [][(pc \in EncoderPcs /\ pc' = pc /\ Count' # Count)
          => /\ a0' # a0
             /\ c0' # c0
             /\ Count' = Count + (IF a0' = c0' THEN 1 ELSE -1)]_vars
  /\ [](pc \in EncoderPcs => hist.changes <= 1)

\* one step clockwise was counted, then A changed again while B kept its
\* level, and Count was left alone
C23_Witness ==
  /\ pc \in EncoderPcs
  /\ hist.steps = 1
  /\ hist.changes = 1
  /\ Count = 1
  /\ a0 # c0
  /\ hist.b = <<c0>>

\* C24: once the encoder stops turning and the button is not pressed, the
\* loop reaches OldCount = Count with the last value it printed equal to
\* Count.  With OldCount = Count at the head of loop() nothing is printed
\* any more until the encoder turns or the button is pressed, so there the
\* value printed last, if any, has to be Count already.
C24_PrintedIsCount ==
  (pc = "ecmp" /\ OldCount = Count /\ hist.printed # <<>>)
    => hist.printed = <<Count>>

\* C25: in every reachable state of the rotary-encoder serial sketch
\* 0 <= Count <= 1000: a counted step changes Count by exactly 1 unless
\* that would leave 0..1000, in which case Count is unchanged, and a click
\* sets Count to 0 (once its store is complete Count is 0, or what the
\* steps counted in this turn of loop() make of 0).
C25_CountInRange ==
  /\ [](pc \in EncoderPcs => Count \in 0..CountMax)
  /\ [][(pc \in EncoderPcs /\ pc' = pc /\ a0' # a0 /\ c0' # c0)
          => LET d == IF a0' = c0' THEN 1 ELSE -1
             IN  Count' = IF Count + d \in 0..CountMax THEN Count + d
                          ELSE Count]_vars
  /\ [][(pc = "ezero2" /\ pc' = "edelay") => Count' \in 0..irq]_vars

\* the partial character path ran in the tile pass of the current page: it
\* reads the playfield once more, after the 16 reads of the loop
PartialRan == Len(reads) > ViewportTiles

\* C26 as stated: for every horizontal scroll offset, after the loop over
\* the 16 viewport tiles of a page the destination pointer is at the end of
\* the row buffer, so the partial character path is never executed.
C26_PartialNeverRuns ==
  pc = "sprites" => ~PartialRan

\* C26: after the loop over the 16 viewport tiles of a page the destination
\* pointer is bScrollX mod 8 bytes before the end of the row buffer: the
\* partial character path is executed exactly when bScrollX mod 8 is not 0,
\* over the bScrollX mod 8 bytes that are left (the value it stores in
\* bXOff), and the tile pass has written all 128 bytes.
C26_PartialWhenShifted ==
  pc = "sprites"
    => /\ PartialRan <=> (bScrollX % 8 # 0)
       /\ PartialRan => bXOff = bScrollX % 8
       /\ nTile = SCREEN_WIDTH

\* a second page of a frame scrolled 3 pixels into a tile: the partial
\* character path ran again, over 3 bytes
C26_Witness ==
  /\ pc = "sprites"
  /\ y = 1
  /\ bScrollX % 8 = 3
  /\ PartialRan
  /\ bXOff = 3

====
